---- MODULE Spec2Model ----
(***************************************************************************)
(* Streamed chat proxy of stock-ai-ultra: the chat gateway                 *)
(* (POST /api/chat in server/routes.ts) and the stream client              *)
(* (streamChat in lib/api.ts).                                             *)
(*                                                                         *)
(* Text is modelled character by character: a string is a sequence of      *)
(* one-character strings, so framing, JSON escaping, line splitting and    *)
(* parsing are computed and not assumed.                                   *)
(***************************************************************************)
EXTENDS Integers, Sequences, FiniteSets, TLC

(***************************************************************************)
(* Bounds of the model.                                                    *)
(***************************************************************************)
\* the upstream stream yields at most MaxFrags chunks per request
MaxFrags == 2
\* a stub server's response body holds at most MaxLines lines
MaxLines == 2
\* the clock advances at most MaxTicks times
MaxTicks == 4
\* the last MaxReads price reads are kept
MaxReads == 2
\* the upstream stream of a concurrent session yields at most MaxSessionFrags chunks
MaxSessionFrags == 1
\* a read of a concurrent session returns ReadSize bytes when more have arrived
ReadSize == 10
\* the chat screen starts at most MaxTurns turns
MaxTurns == 2
\* a stream of the chat screen delivers at most MaxChunks chunks
MaxChunks == 1

(***************************************************************************)
(* String literals of the source.                                          *)
(***************************************************************************)
DataPrefix == <<"d", "a", "t", "a", ":", " ">>
PrefixLen == 6
FrameEnd == <<"\n", "\n">>
KeyContent == <<"c", "o", "n", "t", "e", "n", "t">>
KeyError == <<"e", "r", "r", "o", "r">>
KeyDone == <<"d", "o", "n", "e">>
LitTrue == <<"t", "r", "u", "e">>
LitFalse == <<"f", "a", "l", "s", "e">>
MessageRequired ==
    <<"M", "e", "s", "s", "a", "g", "e", " ", "r", "e", "q", "u", "i", "r", "e", "d">>
FailedToProcessChat ==
    <<"F", "a", "i", "l", "e", "d", " ", "t", "o", " ", "p", "r", "o", "c", "e", "s", "s",
      " ", "c", "h", "a", "t">>
AIServiceError ==
    <<"A", "I", " ", "s", "e", "r", "v", "i", "c", "e", " ", "e", "r", "r", "o", "r">>
FailedToConnect ==
    <<"F", "a", "i", "l", "e", "d", " ", "t", "o", " ", "c", "o", "n", "n", "e", "c", "t",
      " ", "t", "o", " ", "A", "I">>
NoResponseBody ==
    <<"N", "o", " ", "r", "e", "s", "p", "o", "n", "s", "e", " ", "b", "o", "d", "y">>
NetworkError ==
    <<"N", "e", "t", "w", "o", "r", "k", " ", "e", "r", "r", "o", "r">>

(***************************************************************************)
(* JavaScript values: strings, booleans and undefined, with truthiness.    *)
(***************************************************************************)
Undefined == [kind |-> "undefined", s |-> <<>>, b |-> FALSE]
StrV(s) == [kind |-> "string", s |-> s, b |-> FALSE]
BoolV(b) == [kind |-> "bool", s |-> <<>>, b |-> b]
\* an array value; s holds its elements
ArrayV(a) == [kind |-> "array", s |-> a, b |-> FALSE]

Truthy(v) == \/ v.kind = "string" /\ Len(v.s) > 0
             \/ v.kind = "bool" /\ v.b

\* !s for a string s: only the empty string is falsy
Falsy(s) == Len(s) = 0

(***************************************************************************)
(* JSON.stringify on strings and on the one-member objects the gateway     *)
(* writes.                                                                 *)
(***************************************************************************)
\* variant: the text is put between the quotes as it is
EscapeCharNone(c) == <<c>>

EscapeChar(c) ==
    IF c = "\"" THEN <<"\\", "\"">>
    ELSE IF c = "\\" THEN <<"\\", "\\">>
    ELSE IF c = "\n" THEN <<"\\", "n">>
    ELSE <<c>>

RECURSIVE Escape(_)
Escape(s) == IF Len(s) = 0 THEN <<>> ELSE EscapeChar(Head(s)) \o Escape(Tail(s))

JSONString(s) == <<"\"">> \o Escape(s) \o <<"\"">>

JSONValue(v) ==
    IF v.kind = "string" THEN JSONString(v.s)
    ELSE IF v.b THEN LitTrue ELSE LitFalse

\* JSON.stringify({ key: v })
JSONStringify(key, v) ==
    <<"{">> \o JSONString(key) \o <<":">> \o JSONValue(v) \o <<"}">>

(***************************************************************************)
(* JSON.parse, restricted to objects whose members are strings, true or    *)
(* false.  Any other text is reported as not ok: the caller's try/catch    *)
(* and its field tests treat a parse exception, a non-object value and an  *)
(* object without done/error/content alike (no callback).                  *)
(***************************************************************************)
ParseFail == [ok |-> FALSE, val |-> Undefined, next |-> 0]

RECURSIVE SkipWs(_, _)
SkipWs(t, i) ==
    IF i <= Len(t) /\ t[i] = " " THEN SkipWs(t, i + 1) ELSE i

HasAt(t, i, lit) ==
    /\ i + Len(lit) - 1 <= Len(t)
    /\ SubSeq(t, i, i + Len(lit) - 1) = lit

\* t[i] is the first character after the opening quote
RECURSIVE ScanString(_, _, _)
ScanString(t, i, acc) ==
    IF i > Len(t) THEN ParseFail
    ELSE IF t[i] = "\"" THEN [ok |-> TRUE, val |-> StrV(acc), next |-> i + 1]
    ELSE IF t[i] = "\n" THEN ParseFail
    ELSE IF t[i] = "\\" THEN
        IF i + 1 > Len(t) THEN ParseFail
        ELSE IF t[i + 1] = "n" THEN ScanString(t, i + 2, Append(acc, "\n"))
        ELSE IF t[i + 1] \in {"\"", "\\", "/"}
            THEN ScanString(t, i + 2, Append(acc, t[i + 1]))
        ELSE ParseFail
    ELSE ScanString(t, i + 1, Append(acc, t[i]))

ParseValue(t, i) ==
    IF i > Len(t) THEN ParseFail
    ELSE IF t[i] = "\"" THEN ScanString(t, i + 1, <<>>)
    ELSE IF HasAt(t, i, LitTrue)
        THEN [ok |-> TRUE, val |-> BoolV(TRUE), next |-> i + Len(LitTrue)]
    ELSE IF HasAt(t, i, LitFalse)
        THEN [ok |-> TRUE, val |-> BoolV(FALSE), next |-> i + Len(LitFalse)]
    ELSE ParseFail

EmptyObject == [ok |-> TRUE, done |-> Undefined, error |-> Undefined, content |-> Undefined]
NotParsed == [ok |-> FALSE, done |-> Undefined, error |-> Undefined, content |-> Undefined]

SetMember(obj, key, v) ==
    IF key = KeyDone THEN [obj EXCEPT !.done = v]
    ELSE IF key = KeyError THEN [obj EXCEPT !.error = v]
    ELSE IF key = KeyContent THEN [obj EXCEPT !.content = v]
    ELSE obj

\* t[i] is where a member (a quoted key) has to start
RECURSIVE ParseMembers(_, _, _)
ParseMembers(t, i, obj) ==
    LET j == SkipWs(t, i)
        k == IF j <= Len(t) /\ t[j] = "\"" THEN ScanString(t, j + 1, <<>>) ELSE ParseFail
    IN  IF ~k.ok THEN NotParsed
        ELSE
          LET c == SkipWs(t, k.next)
          IN  IF c > Len(t) \/ t[c] # ":" THEN NotParsed
              ELSE
                LET v == ParseValue(t, SkipWs(t, c + 1))
                IN  IF ~v.ok THEN NotParsed
                    ELSE
                      LET e == SkipWs(t, v.next)
                          obj2 == SetMember(obj, k.val.s, v.val)
                      IN  IF e > Len(t) THEN NotParsed
                          ELSE IF t[e] = "," THEN ParseMembers(t, e + 1, obj2)
                          ELSE IF t[e] = "}" /\ SkipWs(t, e + 1) > Len(t) THEN obj2
                          ELSE NotParsed

JSONParse(t) ==
    LET i == SkipWs(t, 1)
    IN  IF i > Len(t) \/ t[i] # "{" THEN NotParsed
        ELSE
          LET j == SkipWs(t, i + 1)
          IN  IF j <= Len(t) /\ t[j] = "}"
                THEN IF SkipWs(t, j + 1) > Len(t) THEN EmptyObject ELSE NotParsed
                ELSE ParseMembers(t, j, EmptyObject)

(***************************************************************************)
(* String helpers of the client: split('\n'), startsWith, slice.           *)
(***************************************************************************)
\* index of the first newline of t at or after i, 0 when there is none
RECURSIVE FindNewline(_, _)
FindNewline(t, i) ==
    IF i > Len(t) THEN 0
    ELSE IF t[i] = "\n" THEN i
    ELSE FindNewline(t, i + 1)

RECURSIVE SplitFrom(_, _)
SplitFrom(t, i) ==
    LET j == FindNewline(t, i)
    IN  IF j = 0 THEN <<SubSeq(t, i, Len(t))>>
        ELSE <<SubSeq(t, i, j - 1)>> \o SplitFrom(t, j + 1)

\* t.split('\n'): always at least one element
Split(t) == SplitFrom(t, 1)

StartsWith(t, p) == Len(t) >= Len(p) /\ SubSeq(t, 1, Len(p)) = p

\* t.slice(n)
Slice(t, n) == SubSeq(t, n + 1, Len(t))

(***************************************************************************)
(* The StreamEvent frames of the gateway.                                  *)
(***************************************************************************)
\* `data: ${JSON.stringify({ content })}\n\n`
ContentFrame(content) == DataPrefix \o JSONStringify(KeyContent, StrV(content)) \o FrameEnd
\* `data: ${JSON.stringify({ done: true })}\n\n`
DoneFrame == DataPrefix \o JSONStringify(KeyDone, BoolV(TRUE)) \o FrameEnd
\* variant: the error text is sent under the key `message`
ErrorFrameMessageKey ==
    DataPrefix \o JSONStringify(<<"m", "e", "s", "s", "a", "g", "e">>, StrV(AIServiceError))
               \o FrameEnd

\* `data: ${JSON.stringify({ error: "AI service error" })}\n\n`
ErrorFrame == DataPrefix \o JSONStringify(KeyError, StrV(AIServiceError)) \o FrameEnd

(***************************************************************************)
(* Market data and the enrichment context of the gateway.                  *)
(***************************************************************************)
\* getAllSymbols(): Object.keys(STOCKS), in the order of the table
GetAllSymbols ==
    << <<"A", "A", "P", "L">>,
       <<"M", "S", "F", "T">>,
       <<"G", "O", "O", "G", "L">>,
       <<"A", "M", "Z", "N">>,
       <<"N", "V", "D", "A">>,
       <<"T", "S", "L", "A">>,
       <<"M", "E", "T", "A">>,
       <<"J", "P", "M">>,
       <<"V">>,
       <<"J", "N", "J">>,
       <<"W", "M", "T">>,
       <<"P", "G">>,
       <<"U", "N", "H">>,
       <<"H", "D">>,
       <<"B", "A", "C">>,
       <<"D", "I", "S">>,
       <<"N", "F", "L", "X">>,
       <<"A", "M", "D">>,
       <<"C", "R", "M">>,
       <<"I", "N", "T", "C">>,
       <<"P", "Y", "P", "L">>,
       <<"U", "B", "E", "R">>,
       <<"S", "Q">>,
       <<"S", "N", "A", "P">>,
       <<"C", "O", "I", "N">> >>

\* the names of the entries of getMarketIndices(), in order
GetMarketIndices == <<"S&P 500", "NASDAQ", "DOW">>

LowerCase == <<"a", "b", "c", "d", "e", "f", "g", "h", "i", "j", "k", "l", "m", "n", "o", "p", "q", "r", "s", "t", "u", "v", "w", "x", "y", "z">>
UpperCase == <<"A", "B", "C", "D", "E", "F", "G", "H", "I", "J", "K", "L", "M", "N", "O", "P", "Q", "R", "S", "T", "U", "V", "W", "X", "Y", "Z">>

\* String.prototype.toUpperCase on one character
UpperChar(c) ==
    IF \E i \in 1..Len(LowerCase) : LowerCase[i] = c
      THEN UpperCase[CHOOSE i \in 1..Len(LowerCase) : LowerCase[i] = c]
      ELSE c

\* variant: the message is searched as written
ToUpperCaseNone(s) == s

\* String.prototype.toUpperCase
ToUpperCase(s) == [i \in 1..Len(s) |-> UpperChar(s[i])]

\* String.prototype.includes
Includes(text, sub) ==
    \E i \in 0..(Len(text) - Len(sub)) : SubSeq(text, i + 1, i + Len(sub)) = sub

\* getStockQuote(symbol): <<>> for null, else the quote; its figures depend
\* on the clock and are left out
GetStockQuote(symbol) ==
    IF \E i \in 1..Len(GetAllSymbols) : GetAllSymbols[i] = ToUpperCase(symbol)
      THEN <<[symbol |-> ToUpperCase(symbol)]>>
      ELSE <<>>

\* symbols.filter(s => message.toUpperCase().includes(s))
MentionedStocks(message) ==
    SelectSeq(GetAllSymbols, LAMBDA s : Includes(ToUpperCase(message), s))

\* the line `${q.symbol}: $${q.price} (...)` of one quote
QuoteLine(q) == [line |-> "quote", symbol |-> q.symbol]

\* the line `Current market data:`
MarketDataHeader == [line |-> "Current market data:", symbol |-> <<>>]

\* mentionedStocks.map(...).filter(Boolean): the lines joined by '\n'
RECURSIVE QuoteLines(_)
QuoteLines(stocks) ==
    IF stocks = <<>> THEN <<>>
    ELSE LET q == GetStockQuote(Head(stocks))
         IN  (IF q = <<>> THEN <<>> ELSE <<QuoteLine(q[1])>>) \o QuoteLines(Tail(stocks))

\* variant: the market data block is opened for every message
StockContextAlways(message) ==
    <<MarketDataHeader>> \o QuoteLines(MentionedStocks(message))

\* stockContext: the lines after the blank line, none for ""
StockContext(message) ==
    IF Len(MentionedStocks(message)) > 0
      THEN <<MarketDataHeader>> \o QuoteLines(MentionedStocks(message))
      ELSE <<>>

\* indexContext: one `${i.name}: ${i.value} (...)` per index, joined by ', '
IndexContext == [i \in 1..Len(GetMarketIndices) |-> [name |-> GetMarketIndices[i]]]

\* the system message: the fixed instruction text around the two contexts
SystemMessage(message) ==
    [role |-> "system",
     content |-> [indexContext |-> IndexContext, stockContext |-> StockContext(message)]]

\* `history = []`: the default of the destructuring applies to undefined
HistoryOrDefault(history) == IF history.kind = "undefined" THEN <<>> ELSE history.s

\* variant: the prior turns are left out of the upstream request
HistoryTurnsNone(history) == <<>>

\* history.map(h => ({ role: h.role, content: h.content }))
HistoryTurns(history) ==
    [i \in 1..Len(history) |-> [role |-> history[i].role, content |-> history[i].content]]

\* the `messages` array of the upstream request
ChatMessages(message, history) ==
    <<SystemMessage(message)>> \o HistoryTurns(history) \o <<[role |-> "user", content |-> message]>>

(***************************************************************************)
(* The quote generator: getStockPrice.  Prices are in cents, variations in *)
(* units of 10^-5.  Instants are in ms after Epoch, the start of the       *)
(* minute 2026-11-01T00:00:00Z (Date.now() = 1793491200000); a seed s of   *)
(* the code is held as (s - Epoch / 60000) * 60000, so that two seeds are  *)
(* equal exactly when their model values are.                              *)
(***************************************************************************)
\* the divisor of `now / 60000`
MsPerMinute == 60000

\* the instants at which the clock is read are TickMs apart
TickMs == 20000

\* STOCKS[symbol].basePrice
BasePrices ==
    << [symbol |-> <<"A", "A", "P", "L">>, basePrice |-> 19850],
       [symbol |-> <<"M", "S", "F", "T">>, basePrice |-> 42880],
       [symbol |-> <<"A", "M", "Z", "N">>, basePrice |-> 19730] >>

\* the symbols whose price is read
QuoteSymbols == { BasePrices[i].symbol : i \in 1..Len(BasePrices) }

\* symbol.charCodeAt(0), for a symbol that starts with a capital letter
CharCodeAt0(symbol) == 64 + (CHOOSE i \in 1..Len(UpperCase) : UpperCase[i] = symbol[1])

\* Math.sin is not computable over TLC's integers: getVariation is
\* tabulated at the seeds the model can form, each entry being
\* x - Math.floor(x) for x = Math.sin(seed) * 10000 in IEEE doubles
VariationTable ==
    << [seed |-> 3900000, variation |-> 8256],
       [seed |-> 3920000, variation |-> 27435],
       [seed |-> 3940000, variation |-> 72622],
       [seed |-> 3960000, variation |-> 84052],
       [seed |-> 3980000, variation |-> 47367],
       [seed |-> 4000000, variation |-> 74230],
       [seed |-> 4020000, variation |-> 46988],
       [seed |-> 4040000, variation |-> 76570],
       [seed |-> 4060000, variation |-> 78296],
       [seed |-> 4620000, variation |-> 19356],
       [seed |-> 4640000, variation |-> 51625],
       [seed |-> 4660000, variation |-> 65414],
       [seed |-> 4680000, variation |-> 85782],
       [seed |-> 4700000, variation |-> 99539],
       [seed |-> 4720000, variation |-> 47728],
       [seed |-> 4740000, variation |-> 50634],
       [seed |-> 4760000, variation |-> 14822],
       [seed |-> 4780000, variation |-> 63672] >>

\* getVariation(seed)
GetVariation(seed) ==
    VariationTable[CHOOSE i \in 1..Len(VariationTable) : VariationTable[i].seed = seed].variation

\* the argument of getVariation at instant t: now / 60000 + symbol.charCodeAt(0)
PriceSeed(symbol, t) == t + MsPerMinute * CharCodeAt0(symbol)

\* Math.round(basePrice * (1 + (variation - 0.5) * 0.06) * 100), the product
\* taken in two parts to stay within 32 bits
RoundedPrice(basePrice, variation) ==
    LET a == basePrice * (variation - 50000)
        q == a \div 5000000
        r == a % 5000000
    IN  basePrice + 3 * q + (3 * r + 2500000) \div 5000000

\* getStockPrice(symbol) when Date.now() is t
GetStockPrice(symbol, t) ==
    IF \A i \in 1..Len(BasePrices) : BasePrices[i].symbol # symbol THEN 0
    ELSE LET stock == BasePrices[CHOOSE i \in 1..Len(BasePrices) : BasePrices[i].symbol = symbol]
         IN  RoundedPrice(stock.basePrice, GetVariation(PriceSeed(symbol, t)))

(***************************************************************************)
(* Inputs.                                                                 *)
(***************************************************************************)
\* request messages: empty, whitespace-only, ordinary, naming a symbol, and
\* naming one in lower case next to a word that holds a one-letter symbol
Messages == {<<>>, <<" ">>, <<"h", "i">>, <<"A", "A", "P", "L">>,
             <<"a", "m", "d", " ", "v", "s">>}

\* prior turns
UserTurn == [role |-> "user", content |-> <<"q">>]
AssistantTurn == [role |-> "assistant", content |-> <<"r">>]

\* req.body.history: absent, empty, one turn, two turns
Histories == {Undefined, ArrayV(<<>>), ArrayV(<<UserTurn>>), ArrayV(<<UserTurn, AssistantTurn>>)}

\* the histories streamChat is called with
ClientHistories == {<<>>}

\* the messages streamChat is called with: empty and ordinary
ClientMessages == {<<>>, <<"h", "i">>}

\* delta contents an upstream chunk can carry (a chunk without content
\* reads as "" by `|| ""`); one needs every JSON escape and holds the
\* text 'data: ' after a newline
Fragments == {<<>>, <<"A">>, <<"\"", "\\", "\n", "d", "a", "t", "a", ":", " ">>}

\* the sessions in flight
Sessions == {"s1", "s2"}

\* the messages of a session's request: empty and ordinary
SessionMessages == {<<>>, <<"h", "i">>}

\* the delta content the upstream stream of each session yields: a letter
\* of its own
SessionFragments == [s \in Sessions |-> IF s = "s1" THEN <<"A">> ELSE <<"B">>]

\* a session before streamChat is called
NewSession ==
    [request |-> <<>>, gpc |-> "listening", upstream |-> "none", yielded |-> <<>>,
     resWrites |-> <<>>, resJson |-> <<>>, respStatus |-> 0, respClosed |-> FALSE,
     bodyEnded |-> FALSE, cut |-> FALSE, wire |-> <<>>, cpc |-> "idle", buffer |-> <<>>, calls |-> <<>>, received |-> <<>>]

(***************************************************************************)
(* The chat screen: ChatScreen.                                            *)
(***************************************************************************)
\* the text the error callback puts in place of the answer
ApologyText ==
    <<"S", "o", "r", "r", "y", ",", " ", "I", " ", "e", "n", "c", "o", "u",
       "n", "t", "e", "r", "e", "d", " ", "a", "n", " ", "e", "r", "r", "o",
       "r", ".", " ", "P", "l", "e", "a", "s", "e", " ", "t", "r", "y", " ",
       "a", "g", "a", "i", "n", ".">>

\* the suggestions offered on the empty screen
Suggestions == {<<"A", "n", "a", "l", "y", "z", "e", " ", "A", "A", "P", "L", " ", "s", "t", "o", "c", "k">>, <<"I", "s", " ", "T", "S", "L", "A", " ", "o", "v", "e", "r", "v", "a", "l", "u", "e", "d", "?">>}

\* what the user types: nothing, a blank, a question between blanks
InputTexts == {<<>>, <<" ">>, <<" ", "h", "i", " ">>}

\* the texts the callbacks of a stream deliver
ChatChunks == {<<"A">>}

RECURSIVE TrimStart(_)
TrimStart(s) ==
    IF s # <<>> /\ Head(s) \in {" ", "\n"} THEN TrimStart(Tail(s)) ELSE s

RECURSIVE TrimEnd(_)
TrimEnd(s) ==
    IF s # <<>> /\ s[Len(s)] \in {" ", "\n"} THEN TrimEnd(SubSeq(s, 1, Len(s) - 1)) ELSE s

\* String.prototype.trim
Trim(s) == TrimEnd(TrimStart(s))

\* useState: the screen before the first message.  isStreaming and messages
\* are the state as last set; rendered holds the values of the last render,
\* the ones sendMessage and the JSX close over.  streams lists the
\* streamChat calls made and nextId stands for Crypto.randomUUID().
NewScreen ==
    [messages |-> <<>>, input |-> <<>>, isStreaming |-> FALSE,
     rendered |-> [messages |-> <<>>, input |-> <<>>, isStreaming |-> FALSE],
     streams |-> <<>>, nextId |-> 1]

(***************************************************************************)
(* The portfolio: PortfolioProvider and the keys it keeps in AsyncStorage. *)
(* A holding is held as its symbol and its quantity; name, buyPrice and    *)
(* addedAt travel with them through every operation and are left out.      *)
(***************************************************************************)
MaxOps == 3

SymAAPL == <<"A", "A", "P", "L">>
SymMSFT == <<"M", "S", "F", "T">>
PortfolioSymbols == {SymAAPL, SymMSFT}

\* parseInt(addQty) after the screen's check qty > 0
Quantities == {1, 2}

PortfolioItems == [symbol : PortfolioSymbols, quantity : Quantities]

KeySymbol == <<"s", "y", "m", "b", "o", "l">>
KeyQuantity == <<"q", "u", "a", "n", "t", "i", "t", "y">>

\* JSON.stringify of a small positive integer
JSONNumber(n) == <<CHOOSE d \in {"1", "2", "3", "4", "5", "6", "7", "8", "9"} :
                     d = ToString(n)>>

\* JSON.stringify of an array, given the texts of its elements
RECURSIVE JoinComma(_)
JoinComma(ts) ==
    IF Len(ts) = 0 THEN <<>>
    ELSE IF Len(ts) = 1 THEN ts[1]
    ELSE ts[1] \o <<",">> \o JoinComma(Tail(ts))

JSONArray(ts) == <<"[">> \o JoinComma(ts) \o <<"]">>

\* JSON.stringify(item)
StringifyItem(item) ==
    <<"{">> \o JSONString(KeySymbol) \o <<":">> \o JSONString(item.symbol)
        \o <<",">> \o JSONString(KeyQuantity) \o <<":">> \o JSONNumber(item.quantity)
        \o <<"}">>

\* JSON.stringify(next) of addHolding and removeHolding
StringifyHoldings(hs) == JSONArray([i \in 1..Len(hs) |-> StringifyItem(hs[i])])

\* JSON.stringify(next) of addToWatchlist and removeFromWatchlist
StringifyWatchlist(ws) == JSONArray([i \in 1..Len(ws) |-> JSONString(ws[i])])

\* the lists of at most n elements of S
RECURSIVE ListsOf(_, _)
ListsOf(S, n) ==
    IF n = 0 THEN {<<>>}
    ELSE LET shorter == ListsOf(S, n - 1)
         IN  shorter \cup {Append(l, x) : l \in shorter, x \in S}

\* the arrays a stored text can stand for
HoldingLists == ListsOf(PortfolioItems, MaxOps + 1)
WatchLists == ListsOf(PortfolioSymbols, MaxOps + 1)

\* JSON.parse(h): the array whose text h is.  The key holds only texts that
\* setItem was given, each the JSON.stringify of such an array.
ParseHoldings(t) == CHOOSE hs \in HoldingLists : StringifyHoldings(hs) = t

\* JSON.parse(w)
ParseWatchlist(t) == CHOOSE ws \in WatchLists : StringifyWatchlist(ws) = t

\* the value of a key of AsyncStorage: null, or a text
NoItem == [present |-> FALSE, text |-> <<>>]
Item(t) == [present |-> TRUE, text |-> t]

\* `if (h)`: a key that is there and not the empty text
ItemTruthy(v) == v.present /\ Len(v.text) > 0

\* what the two keys can hold when the app starts: nothing, or what an
\* earlier run of the app left there
StoredHoldingsAtStart == {NoItem, Item(StringifyHoldings(<<[symbol |-> SymAAPL, quantity |-> 1]>>))}
StoredWatchlistAtStart == {NoItem, Item(StringifyWatchlist(<<SymAAPL>>))}

\* an operation of the context as called: its name and its argument
Called(op, symbol, quantity) == <<[op |-> op, symbol |-> symbol, quantity |-> quantity]>>

\* the provider before it is mounted.  readHoldings and readWatchlist hold
\* what the getItem calls of the initial load have returned; ops counts the
\* operations issued and last is the latest of them.
\* emptyStart, overwrote, watched, cleared, sinceClear record the past for
\* the properties below: the app started with both keys absent, the load
\* replaced a list an operation had set, the symbols added to the watchlist
\* and not removed since, Clear Data has run, and the symbols added since.
NewPortfolio ==
    [pc |-> "unmounted", holdings |-> <<>>, watchlist |-> <<>>,
     storedHoldings |-> NoItem, storedWatchlist |-> NoItem,
     readHoldings |-> <<>>, readWatchlist |-> <<>>, ops |-> 0, last |-> <<>>,
     emptyStart |-> FALSE, overwrote |-> FALSE, watched |-> {},
     cleared |-> FALSE, sinceClear |-> {}]

(***************************************************************************)
(* Local authentication: AuthProvider and its keys auth_user and           *)
(* registered_users in AsyncStorage.                                       *)
(***************************************************************************)
MaxAuthOps == 3

Salt == <<"s", "t", "o", "c", "k", "a", "i", "_", "s", "a", "l", "t", "_", "v", "1">>

\* hashPassword: the SHA-256 digest of the salted password, held as the
\* text that was digested (two texts have one digest only when equal)
HashPassword(password) == [algorithm |-> "SHA256", of |-> password \o Salt]

\* String.prototype.toLowerCase on one character
LowerChar(c) ==
    IF \E i \in 1..Len(UpperCase) : UpperCase[i] = c
      THEN LowerCase[CHOOSE i \in 1..Len(UpperCase) : UpperCase[i] = c]
      ELSE c

\* String.prototype.toLowerCase
ToLowerCase(s) == [i \in 1..Len(s) |-> LowerChar(s[i])]

\* what the screens pass to login and signup
Emails == {<<"a", "@", "x">>, <<"A", "@", "x">>}
Passwords == {<<"p", "w">>, <<"P", "w">>}
UserName == <<"N">>

AccountNotFound ==
    <<"A", "c", "c", "o", "u", "n", "t", " ", "n", "o", "t", " ", "f", "o", "u", "n", "d">>
InvalidPassword ==
    <<"I", "n", "v", "a", "l", "i", "d", " ", "p", "a", "s", "s", "w", "o", "r", "d">>
LoginFailed == <<"L", "o", "g", "i", "n", " ", "f", "a", "i", "l", "e", "d">>
EmailAlreadyRegistered ==
    <<"E", "m", "a", "i", "l", " ", "a", "l", "r", "e", "a", "d", "y", " ", "r", "e",
      "g", "i", "s", "t", "e", "r", "e", "d">>
SignupFailed == <<"S", "i", "g", "n", "u", "p", " ", "f", "a", "i", "l", "e", "d">>

\* the awaited call of login that rejects, if one does
LoginAwaits == {"none", "getItem", "digest", "setItem auth_user"}

\* the awaited call of signup that rejects, if one does
SignupAwaits == {"none", "getItem", "digest", "setItem registered_users", "setItem auth_user"}

\* the provider on a device where nobody has signed up.  user is the state
\* of the provider and authUser the key auth_user, each <<>> or <<u>>;
\* users is the object under registered_users, as the set of its members,
\* each with its key; history lists the calls made and their results, and
\* before is the state the last call found.
NewAuth ==
    [user |-> <<>>, authUser |-> <<>>, users |-> {}, nextId |-> 1,
     history |-> <<>>,
     before |-> [user |-> <<>>, authUser |-> <<>>, users |-> {}]]

(***************************************************************************)
(* State.                                                                  *)
(***************************************************************************)
VARIABLES
    request,          \* HTTP request in flight: <<>> or <<[message |-> m, history |-> h]>>
    gpc,              \* gateway handler: "listening", "creating", "streaming", "finished"
    gmessage,         \* the handler's `message`, <<>> before a request is handled
    ghistory,         \* req.body.history of the handled request, Undefined before
    upstreamMessages, \* the `messages` array given to create(), <<>> before
    upstreamRequests, \* number of openai.chat.completions.create calls
    upstream,         \* upstream stream: "none", "rejected", "open", "ended", "raised"
    yielded,          \* delta contents the upstream stream has yielded so far
    resWrites,        \* arguments of the res.write calls, in order
    resJson,          \* body given to res.json, <<>> when not called
    respStatus,       \* status line of the response; 0 until the headers are sent
    respHasBody,      \* res.body of the client's Response is not null
    respClosed,       \* the server has ended the response (res.end())
    bodyEnded,        \* the body stream the client reads has ended
    wire,             \* body bytes sent and not yet read by the client
    cpc,              \* streamChat: "idle", "fetching", "reading", "returned"
    buffer,           \* streamChat's `buffer`
    calls,            \* the callbacks streamChat has invoked, in order
    received,         \* every byte reader.read() has returned so far
    netError,         \* fetch or reader.read() has rejected
    exception,        \* <<>> or <<[at |-> cpc, message |-> msg]>>: the exception caught
    readerHeld,       \* the body stream is open and locked to streamChat's reader
    fetches,          \* number of fetch calls streamChat has made
    now,              \* Date.now(), in ms after the instant Epoch
    priceReads,       \* the last getStockPrice calls: [symbol, at, seed, price]
    sessions,         \* the concurrent chat sessions, by session
    screen,           \* the state of the chat screen
    portfolio,        \* the portfolio provider and its two keys in AsyncStorage
    auth              \* the auth provider and its two keys in AsyncStorage

gatewayVars == <<gpc, gmessage, ghistory, upstreamMessages, upstreamRequests, upstream, yielded, resWrites, resJson>>
marketVars == <<now, priceReads>>
clientVars == <<cpc, buffer, calls, received, netError, exception, readerHeld, fetches>>
vars == <<request, gpc, gmessage, ghistory, upstreamMessages, upstreamRequests, upstream,
          yielded, resWrites, resJson,
          respStatus, respHasBody, respClosed, bodyEnded, wire,
          cpc, buffer, calls, received, netError, exception, readerHeld, fetches,
          now, priceReads, sessions, screen, portfolio, auth>>

Init ==
    /\ request = <<>>
    /\ gpc = "listening"
    /\ gmessage = <<>>
    /\ ghistory = Undefined
    /\ upstreamMessages = <<>>
    /\ upstreamRequests = 0
    /\ upstream = "none"
    /\ yielded = <<>>
    /\ resWrites = <<>>
    /\ resJson = <<>>
    /\ respStatus = 0
    /\ respHasBody = TRUE
    /\ respClosed = FALSE
    /\ bodyEnded = FALSE
    /\ wire = <<>>
    /\ cpc = "idle"
    /\ buffer = <<>>
    /\ calls = <<>>
    /\ received = <<>>
    /\ netError = FALSE
    /\ exception = <<>>
    /\ readerHeld = FALSE
    /\ fetches = 0
    /\ now = 0
    /\ priceReads = <<>>
    /\ sessions = [s \in Sessions |-> NewSession]
    /\ screen = NewScreen
    /\ portfolio = NewPortfolio
    /\ auth = NewAuth

(***************************************************************************)
(* Chat gateway: POST /api/chat.                                           *)
(***************************************************************************)
\* variant: tests res.writableEnded in place of res.headersSent
HeadersSentWhenEnded == respClosed

\* res.headersSent
HeadersSent == respStatus # 0

\* some HTTP client posts { message, history } to /api/chat
PostChat(m, h) ==
    /\ gpc = "listening"
    /\ request = <<>>
    /\ respStatus = 0
    /\ request' = <<[message |-> m, history |-> h]>>
    /\ UNCHANGED <<gatewayVars, clientVars, respStatus, respHasBody, respClosed, bodyEnded, wire, marketVars, sessions, screen, portfolio, auth>>

\* res.write(w): the first write sends the headers with status 200; bytes
\* written after the body stream has ended reach nobody
ResWrite(w) ==
    /\ resWrites' = Append(resWrites, w)
    /\ respStatus' = IF HeadersSent THEN respStatus ELSE 200
    /\ wire' = IF bodyEnded THEN wire ELSE wire \o w

\* res.end()
ResEnd ==
    /\ respClosed' = TRUE
    /\ bodyEnded' = TRUE

\* res.status(code).json({ error: text })
ResStatusJson(code, text) ==
    /\ resJson' = JSONStringify(KeyError, StrV(text))
    /\ respStatus' = code
    /\ wire' = wire \o JSONStringify(KeyError, StrV(text))
    /\ ResEnd

\* variant: the done frame is written in a finally clause, after the error
CatchChatErrorThenDone ==
    /\ IF HeadersSent
         THEN /\ resWrites' = resWrites \o <<ErrorFrame, DoneFrame>>
              /\ wire' = wire \o ErrorFrame \o DoneFrame
              /\ ResEnd
              /\ UNCHANGED <<resJson, respStatus>>
         ELSE /\ ResStatusJson(500, FailedToProcessChat)
              /\ UNCHANGED resWrites
    /\ gpc' = "finished"

\* variant: the error frame is written without testing res.headersSent
CatchChatErrorAlwaysFrame ==
    /\ ResWrite(ErrorFrame)
    /\ ResEnd
    /\ UNCHANGED resJson
    /\ gpc' = "finished"

\* variant: the error frame is chosen when the upstream stream was opened
CatchChatErrorWhenStreaming ==
    /\ IF gpc = "streaming"
         THEN /\ ResWrite(ErrorFrame)
              /\ ResEnd
              /\ UNCHANGED resJson
         ELSE /\ ResStatusJson(500, FailedToProcessChat)
              /\ UNCHANGED resWrites
    /\ gpc' = "finished"

\* the catch block of the handler
CatchChatError ==
    /\ IF HeadersSent
         THEN /\ ResWrite(ErrorFrame)
              /\ ResEnd
              /\ UNCHANGED resJson
         ELSE /\ ResStatusJson(500, FailedToProcessChat)
              /\ UNCHANGED resWrites
    /\ gpc' = "finished"

\* the handler from its entry up to the await of create()
ChatHandler ==
    /\ gpc = "listening"
    /\ request # <<>>
    /\ LET message == request[1].message
           history == HistoryOrDefault(request[1].history)
       IN  IF Falsy(message)
             THEN /\ ResStatusJson(400, MessageRequired)
                  /\ gpc' = "finished"
                  /\ UNCHANGED <<upstreamRequests, upstreamMessages, resWrites>>
             ELSE /\ gpc' = "creating"
                  /\ upstreamMessages' = ChatMessages(message, history)
                  /\ upstreamRequests' = upstreamRequests + 1
                  /\ UNCHANGED <<resWrites, resJson, respStatus, respClosed, bodyEnded, wire>>
    /\ gmessage' = request[1].message
    /\ ghistory' = request[1].history
    /\ request' = <<>>
    /\ UNCHANGED <<upstream, yielded, respHasBody, clientVars, marketVars, sessions, screen, portfolio, auth>>

\* variant: a failed create() is attempted again
CreateRejectsRetries ==
    /\ gpc = "creating"
    /\ upstreamRequests < 3
    /\ upstreamRequests' = upstreamRequests + 1
    /\ UNCHANGED <<request, gpc, gmessage, ghistory, upstreamMessages, upstream, yielded,
                   resWrites, resJson, respStatus, respHasBody, respClosed, bodyEnded, wire,
                   clientVars, marketVars, sessions, screen, portfolio, auth>>

\* create() rejects: the provider call fails before streaming starts
CreateRejects ==
    /\ gpc = "creating"
    /\ upstream' = "rejected"
    /\ CatchChatError
    /\ UNCHANGED <<request, gmessage, ghistory, upstreamMessages, upstreamRequests, yielded, respHasBody, clientVars, marketVars, sessions, screen, portfolio, auth>>

\* create() resolves with the upstream stream
CreateResolves ==
    /\ gpc = "creating"
    /\ gpc' = "streaming"
    /\ upstream' = "open"
    /\ UNCHANGED <<request, gmessage, ghistory, upstreamMessages, upstreamRequests, yielded, resWrites, resJson,
                   respStatus, respHasBody, respClosed, bodyEnded, wire, clientVars, marketVars, sessions, screen, portfolio, auth>>

\* one iteration of `for await (const chunk of stream)`
StreamYields(delta) ==
    /\ gpc = "streaming"
    /\ Len(yielded) < MaxFrags
    /\ yielded' = Append(yielded, delta)
    /\ LET content == IF Falsy(delta) THEN <<>> ELSE delta
       IN  IF ~Falsy(content)
             THEN ResWrite(ContentFrame(content))
             ELSE UNCHANGED <<resWrites, respStatus, wire>>
    /\ UNCHANGED <<request, gpc, gmessage, ghistory, upstreamMessages, upstreamRequests, upstream, resJson,
                   respHasBody, respClosed, bodyEnded, clientVars, marketVars, sessions, screen, portfolio, auth>>

\* the upstream stream completes normally
StreamEnds ==
    /\ gpc = "streaming"
    /\ upstream' = "ended"
    /\ ResWrite(DoneFrame)
    /\ ResEnd
    /\ gpc' = "finished"
    /\ UNCHANGED <<request, gmessage, ghistory, upstreamMessages, upstreamRequests, yielded, resJson, respHasBody,
                   clientVars, marketVars, sessions, screen, portfolio, auth>>

\* the upstream stream raises during iteration
StreamRaises ==
    /\ gpc = "streaming"
    /\ upstream' = "raised"
    /\ CatchChatError
    /\ UNCHANGED <<request, gmessage, ghistory, upstreamMessages, upstreamRequests, yielded, respHasBody, clientVars, marketVars, sessions, screen, portfolio, auth>>

(***************************************************************************)
(* Stream client: streamChat.                                              *)
(***************************************************************************)
OnChunk(text) == [cb |-> "onChunk", arg |-> text]
OnDone == [cb |-> "onDone", arg |-> Undefined]
OnError(err) == [cb |-> "onError", arg |-> err]

\* messages an exception of fetch or reader.read() can carry
ErrorMessages == {<<>>, <<"E", "1">>}

\* variant: only server errors count as failures
ResOkBelow500(status) == status >= 200 /\ status < 500

\* res.ok
ResOk(status) == status >= 200 /\ status <= 299

\* streamChat is called: fetch posts { message, history }
StreamChat(m, h) ==
    /\ cpc = "idle"
    /\ request = <<>>
    /\ respStatus = 0
    /\ cpc' = "fetching"
    /\ request' = <<[message |-> m, history |-> ArrayV(h)]>>
    /\ fetches' = fetches + 1
    /\ UNCHANGED <<gatewayVars, respStatus, respHasBody, respClosed, bodyEnded, wire,
                   buffer, calls, received, netError, exception, readerHeld, marketVars, sessions, screen, portfolio, auth>>

\* variant: every exception is reported with the generic text
CatchNetworkErrorGeneric(msg) ==
    /\ calls' = Append(calls, OnError(StrV(NetworkError)))
    /\ netError' = TRUE
    /\ exception' = <<[at |-> cpc, message |-> msg]>>
    /\ readerHeld' = FALSE
    /\ cpc' = "returned"

\* the outer catch: onError(err.message || 'Network error')
CatchNetworkError(msg) ==
    /\ calls' = Append(calls, OnError(StrV(IF Falsy(msg) THEN NetworkError ELSE msg)))
    /\ netError' = TRUE
    /\ exception' = <<[at |-> cpc, message |-> msg]>>
    /\ readerHeld' = FALSE
    /\ cpc' = "returned"

\* fetch rejects before any response is received
FetchRejects(msg) ==
    /\ cpc = "fetching"
    /\ respStatus = 0
    /\ CatchNetworkError(msg)
    /\ UNCHANGED <<gatewayVars, request, respStatus, respHasBody, respClosed, bodyEnded, wire,
                   buffer, received, fetches, marketVars, sessions, screen, portfolio, auth>>

\* variant: no return after onError('Failed to connect to AI')
FetchResolvesNoReturn ==
    /\ cpc = "fetching"
    /\ respStatus # 0
    /\ IF ~ResOk(respStatus)
         THEN /\ calls' = Append(calls, OnError(StrV(FailedToConnect)))
              /\ cpc' = IF respHasBody THEN "reading" ELSE "returned"
         ELSE IF ~respHasBody
         THEN /\ calls' = Append(calls, OnError(StrV(NoResponseBody)))
              /\ cpc' = "returned"
         ELSE /\ cpc' = "reading"
              /\ UNCHANGED calls
    /\ readerHeld' = (cpc' = "reading")
    /\ UNCHANGED <<gatewayVars, request, respStatus, respHasBody, respClosed, bodyEnded, wire,
                   buffer, received, netError, exception, fetches, marketVars, sessions, screen, portfolio, auth>>

\* fetch resolves with the response headers; res.ok and res.body are tested
FetchResolves ==
    /\ cpc = "fetching"
    /\ respStatus # 0
    /\ IF ~ResOk(respStatus)
         THEN /\ calls' = Append(calls, OnError(StrV(FailedToConnect)))
              /\ cpc' = "returned"
         ELSE IF ~respHasBody
         THEN /\ calls' = Append(calls, OnError(StrV(NoResponseBody)))
              /\ cpc' = "returned"
         ELSE /\ cpc' = "reading"
              /\ UNCHANGED calls
    /\ readerHeld' = (cpc' = "reading")
    /\ UNCHANGED <<gatewayVars, request, respStatus, respHasBody, respClosed, bodyEnded, wire,
                   buffer, received, netError, exception, fetches, marketVars, sessions, screen, portfolio, auth>>

\* variant: no return after onDone()
DispatchDoneContinues(data, cs) ==
    IF Truthy(data.done) THEN [calls |-> Append(cs, OnDone), returned |-> FALSE]
    ELSE IF Truthy(data.error)
        THEN [calls |-> Append(cs, OnError(data.error)), returned |-> TRUE]
    ELSE IF Truthy(data.content)
        THEN [calls |-> Append(cs, OnChunk(data.content)), returned |-> FALSE]
    ELSE [calls |-> cs, returned |-> FALSE]

\* variant: no return after onError(data.error)
DispatchErrorContinues(data, cs) ==
    IF Truthy(data.done) THEN [calls |-> Append(cs, OnDone), returned |-> TRUE]
    ELSE IF Truthy(data.error)
        THEN [calls |-> Append(cs, OnError(data.error)), returned |-> FALSE]
    ELSE IF Truthy(data.content)
        THEN [calls |-> Append(cs, OnChunk(data.content)), returned |-> FALSE]
    ELSE [calls |-> cs, returned |-> FALSE]

\* the three tests on a parsed frame; [calls, returned]
Dispatch(data, cs) ==
    IF Truthy(data.done) THEN [calls |-> Append(cs, OnDone), returned |-> TRUE]
    ELSE IF Truthy(data.error)
        THEN [calls |-> Append(cs, OnError(data.error)), returned |-> TRUE]
    ELSE IF Truthy(data.content)
        THEN [calls |-> Append(cs, OnChunk(data.content)), returned |-> FALSE]
    ELSE [calls |-> cs, returned |-> FALSE]

\* variant: no try/catch around JSON.parse, the exception reaches the outer catch
HandleLineNoCatch(line, cs) ==
    IF ~StartsWith(line, DataPrefix) THEN [calls |-> cs, returned |-> FALSE]
    ELSE LET data == JSONParse(Slice(line, PrefixLen))
         IN  IF ~data.ok
               THEN [calls |-> Append(cs, OnError(StrV(NetworkError))), returned |-> TRUE]
               ELSE Dispatch(data, cs)

\* the body of `for (const line of lines)` for one line
HandleLine(line, cs) ==
    IF ~StartsWith(line, DataPrefix) THEN [calls |-> cs, returned |-> FALSE]
    ELSE LET data == JSONParse(Slice(line, PrefixLen))
         IN  IF ~data.ok THEN [calls |-> cs, returned |-> FALSE]
             ELSE Dispatch(data, cs)

\* `for (const line of lines)` from line i on
RECURSIVE ProcessLines(_, _, _)
ProcessLines(lines, i, cs) ==
    IF i > Len(lines) THEN [calls |-> cs, returned |-> FALSE]
    ELSE LET r == HandleLine(lines[i], cs)
         IN  IF r.returned THEN r ELSE ProcessLines(lines, i + 1, r.calls)

\* lines.pop() leaves every element but the last
Front(lines) == SubSeq(lines, 1, Len(lines) - 1)
Last(lines) == lines[Len(lines)]

\* variant: the unterminated tail of a read is not kept for the next one
ReadDropsTail(n) ==
    /\ cpc = "reading"
    /\ n \in 1..Len(wire)
    /\ LET value == SubSeq(wire, 1, n)
           lines == Split(buffer \o value)
           r == ProcessLines(Front(lines), 1, calls)
       IN  /\ wire' = SubSeq(wire, n + 1, Len(wire))
           /\ received' = received \o value
           /\ buffer' = <<>>
           /\ calls' = r.calls
           /\ cpc' = IF r.returned THEN "returned" ELSE "reading"
    /\ UNCHANGED <<gatewayVars, request, respStatus, respHasBody, respClosed, bodyEnded,
                   netError, exception, readerHeld, fetches, marketVars, sessions, screen, portfolio, auth>>

\* variant: the last element of the split is processed as a line too
ReadProcessesTail(n) ==
    /\ cpc = "reading"
    /\ n \in 1..Len(wire)
    /\ LET value == SubSeq(wire, 1, n)
           lines == Split(buffer \o value)
           r == ProcessLines(lines, 1, calls)
       IN  /\ wire' = SubSeq(wire, n + 1, Len(wire))
           /\ received' = received \o value
           /\ buffer' = <<>>
           /\ calls' = r.calls
           /\ cpc' = IF r.returned THEN "returned" ELSE "reading"
    /\ UNCHANGED <<gatewayVars, request, respStatus, respHasBody, respClosed, bodyEnded,
                   netError, exception, readerHeld, fetches, marketVars, sessions, screen, portfolio, auth>>

\* reader.read() returns the next n bytes; one iteration of the while loop
Read(n) ==
    /\ cpc = "reading"
    /\ n \in 1..Len(wire)
    /\ LET value == SubSeq(wire, 1, n)
           lines == Split(buffer \o value)
           r == ProcessLines(Front(lines), 1, calls)
       IN  /\ wire' = SubSeq(wire, n + 1, Len(wire))
           /\ received' = received \o value
           /\ buffer' = Last(lines)
           /\ calls' = r.calls
           /\ cpc' = IF r.returned THEN "returned" ELSE "reading"
    /\ UNCHANGED <<gatewayVars, request, respStatus, respHasBody, respClosed, bodyEnded,
                   netError, exception, readerHeld, fetches, marketVars, sessions, screen, portfolio, auth>>

\* variant: the loop is left without the final onDone()
ReadEndSilent ==
    /\ cpc = "reading"
    /\ wire = <<>>
    /\ bodyEnded
    /\ cpc' = "returned"
    /\ readerHeld' = FALSE
    /\ UNCHANGED <<gatewayVars, request, respStatus, respHasBody, respClosed, bodyEnded, wire,
                   buffer, calls, received, netError, exception, fetches, marketVars, sessions, screen, portfolio, auth>>

\* variant: the rest of the buffer is processed as a last line at the end
ReadEndFlushesBuffer ==
    /\ cpc = "reading"
    /\ wire = <<>>
    /\ bodyEnded
    /\ LET r == HandleLine(buffer, calls)
       IN  calls' = IF r.returned THEN r.calls ELSE Append(r.calls, OnDone)
    /\ cpc' = "returned"
    /\ readerHeld' = FALSE
    /\ UNCHANGED <<gatewayVars, request, respStatus, respHasBody, respClosed, bodyEnded, wire,
                   buffer, received, netError, exception, fetches, marketVars, sessions, screen, portfolio, auth>>

\* reader.read() reports the end of the stream: break, then onDone()
ReadEnd ==
    /\ cpc = "reading"
    /\ wire = <<>>
    /\ bodyEnded
    /\ calls' = Append(calls, OnDone)
    /\ cpc' = "returned"
    /\ readerHeld' = FALSE
    /\ UNCHANGED <<gatewayVars, request, respStatus, respHasBody, respClosed, bodyEnded, wire,
                   buffer, received, netError, exception, fetches, marketVars, sessions, screen, portfolio, auth>>

\* reader.read() rejects: the connection fails mid-stream
ReadRejects(msg) ==
    /\ cpc = "reading"
    /\ CatchNetworkError(msg)
    /\ UNCHANGED <<gatewayVars, request, respStatus, respHasBody, respClosed, bodyEnded, wire,
                   buffer, received, fetches, marketVars, sessions, screen, portfolio, auth>>

\* the body stream ends while the server is still writing: an intermediary
\* closes the response; reader.read() then reports the end of the stream
ConnectionEnds ==
    /\ cpc \in {"fetching", "reading"}
    /\ HeadersSent
    /\ ~bodyEnded
    /\ bodyEnded' = TRUE
    /\ UNCHANGED <<gatewayVars, clientVars, request, respStatus, respHasBody, respClosed, wire, marketVars, sessions, screen, portfolio, auth>>

(***************************************************************************)
(* A server other than the gateway: answers with any status and any body   *)
(* made of a few lines, the last of them terminated or not.                *)
(***************************************************************************)
StubLines ==
    { DataPrefix \o JSONStringify(KeyContent, StrV(<<"A">>)),
      DataPrefix \o JSONStringify(KeyDone, BoolV(TRUE)),
      DataPrefix \o JSONStringify(KeyError, StrV(<<"E", "2">>)),
      DataPrefix \o <<"{", "x">>,
      <<>> }

RECURSIVE JoinLines(_, _)
JoinLines(ls, terminated) ==
    IF Len(ls) = 0 THEN <<>>
    ELSE IF Len(ls) = 1 THEN Head(ls) \o (IF terminated THEN <<"\n">> ELSE <<>>)
    ELSE Head(ls) \o <<"\n">> \o JoinLines(Tail(ls), terminated)

StubBodies ==
    UNION { { JoinLines(ls, t) : ls \in [1..k -> StubLines], t \in BOOLEAN } : k \in 0..MaxLines }

StubStatuses == {200, 404, 500}

StubResponds(status, hasBody, body) ==
    /\ request # <<>>
    /\ respStatus = 0
    /\ request' = <<>>
    /\ respStatus' = status
    /\ respHasBody' = hasBody
    /\ wire' = IF hasBody THEN body ELSE <<>>
    /\ ResEnd
    /\ UNCHANGED <<gatewayVars, clientVars, marketVars, sessions, screen, portfolio, auth>>

(***************************************************************************)
(* The clock and the reads of a price.                                     *)
(***************************************************************************)
\* time passes
ClockTicks ==
    /\ now < MaxTicks * TickMs
    /\ now' = now + TickMs
    /\ UNCHANGED <<request, gatewayVars, clientVars, respStatus, respHasBody, respClosed,
                   bodyEnded, wire, priceReads, sessions, screen, portfolio, auth>>

\* getStockPrice(symbol) is called
ReadStockPrice(symbol) ==
    /\ Len(priceReads) < MaxReads
    /\ priceReads' = Append(priceReads, [symbol |-> symbol, at |-> now,
                                         seed |-> PriceSeed(symbol, now),
                                         price |-> GetStockPrice(symbol, now)])
    /\ UNCHANGED <<request, gatewayVars, clientVars, respStatus, respHasBody, respClosed,
                   bodyEnded, wire, now, sessions, screen, portfolio, auth>>

(***************************************************************************)
(* Concurrent chat sessions.  Each session is one streamChat call against  *)
(* its own run of the gateway handler; sessions[s] holds, under the names  *)
(* used above, the locals of the two and the response between them.  The   *)
(* steps of different sessions interleave freely.                          *)
(***************************************************************************)
\* res.write(w) on the response of a session
SessionResWrite(r, w) ==
    [r EXCEPT !.resWrites = Append(@, w),
              !.respStatus = IF @ # 0 THEN @ ELSE 200,
              !.wire = IF r.bodyEnded THEN @ ELSE @ \o w]

\* res.end()
SessionResEnd(r) == [r EXCEPT !.respClosed = TRUE, !.bodyEnded = TRUE]

\* res.status(code).json({ error: text })
SessionResStatusJson(r, code, text) ==
    SessionResEnd([r EXCEPT !.resJson = JSONStringify(KeyError, StrV(text)),
                            !.respStatus = code,
                            !.wire = @ \o JSONStringify(KeyError, StrV(text))])

\* the catch block of the handler
SessionCatchChatError(r) ==
    IF r.respStatus # 0
      THEN SessionResEnd(SessionResWrite(r, ErrorFrame))
      ELSE SessionResStatusJson(r, 500, FailedToProcessChat)

\* the other sessions are left alone
OnlySession(s, r) ==
    /\ sessions' = [sessions EXCEPT ![s] = r]
    /\ UNCHANGED <<request, gatewayVars, clientVars, marketVars, respStatus, respHasBody,
                   respClosed, bodyEnded, wire, screen, portfolio, auth>>

\* streamChat is called in session s: fetch posts the request
SessionStreamChat(s, m) ==
    /\ sessions[s].cpc = "idle"
    /\ OnlySession(s, [sessions[s] EXCEPT !.cpc = "fetching", !.request = <<[message |-> m]>>])

\* the handler of session s from its entry up to the await of create()
SessionChatHandler(s) ==
    LET r == sessions[s]
    IN  /\ r.gpc = "listening"
        /\ r.request # <<>>
        /\ OnlySession(s,
              IF Falsy(r.request[1].message)
                THEN [SessionResStatusJson(r, 400, MessageRequired) EXCEPT !.gpc = "finished"]
                ELSE [r EXCEPT !.gpc = "creating"])

\* create() rejects in session s
SessionCreateRejects(s) ==
    /\ sessions[s].gpc = "creating"
    /\ OnlySession(s, [SessionCatchChatError(sessions[s]) EXCEPT
                            !.gpc = "finished", !.upstream = "rejected"])

\* create() resolves in session s
SessionCreateResolves(s) ==
    /\ sessions[s].gpc = "creating"
    /\ OnlySession(s, [sessions[s] EXCEPT !.gpc = "streaming", !.upstream = "open"])

\* one iteration of `for await (const chunk of stream)` in session s
SessionStreamYields(s, delta) ==
    LET r == sessions[s]
        content == IF Falsy(delta) THEN <<>> ELSE delta
        y == [r EXCEPT !.yielded = Append(@, delta)]
    IN  /\ r.gpc = "streaming"
        /\ Len(r.yielded) < MaxSessionFrags
        /\ OnlySession(s, IF ~Falsy(content) THEN SessionResWrite(y, ContentFrame(content))
                          ELSE y)

\* the upstream stream of session s completes normally
SessionStreamEnds(s) ==
    /\ sessions[s].gpc = "streaming"
    /\ OnlySession(s, [SessionResEnd(SessionResWrite(sessions[s], DoneFrame)) EXCEPT
                            !.gpc = "finished", !.upstream = "ended"])

\* the upstream stream of session s raises during iteration
SessionStreamRaises(s) ==
    /\ sessions[s].gpc = "streaming"
    /\ OnlySession(s, [SessionCatchChatError(sessions[s]) EXCEPT
                            !.gpc = "finished", !.upstream = "raised"])

\* fetch resolves in session s; res.ok is tested
SessionFetchResolves(s) ==
    LET r == sessions[s]
    IN  /\ r.cpc = "fetching"
        /\ r.respStatus # 0
        /\ OnlySession(s,
              IF ~ResOk(r.respStatus)
                THEN [r EXCEPT !.calls = Append(@, OnError(StrV(FailedToConnect))),
                               !.cpc = "returned"]
                ELSE [r EXCEPT !.cpc = "reading"])

\* the sizes of the chunks reader.read() returns: all that has arrived, or
\* its first ReadSize bytes
ReadSizes(w) == {n \in {ReadSize, Len(w)} : n \in 1..Len(w)}

\* a session after reader.read() has returned n bytes and the lines were
\* processed, starting from the partial line buf
SessionAfterRead(r, n, buf) ==
    LET value == SubSeq(r.wire, 1, n)
        lines == Split(buf \o value)
        p == ProcessLines(Front(lines), 1, r.calls)
    IN  [r EXCEPT !.wire = SubSeq(@, n + 1, Len(@)),
                  !.received = @ \o value,
                  !.buffer = Last(lines),
                  !.calls = p.calls,
                  !.cpc = IF p.returned THEN "returned" ELSE "reading"]

\* variant: `buffer` is declared at module level, one for all the sessions
SessionReadSharedBuffer(s, n) ==
    LET shared == IF \E t \in Sessions : sessions[t].buffer # <<>>
                    THEN sessions[CHOOSE t \in Sessions : sessions[t].buffer # <<>>].buffer
                    ELSE <<>>
        after == SessionAfterRead(sessions[s], n, shared)
    IN  /\ sessions[s].cpc = "reading"
        /\ n \in ReadSizes(sessions[s].wire)
        /\ sessions' = [t \in Sessions |->
                            IF t = s THEN after
                            ELSE [sessions[t] EXCEPT !.buffer = after.buffer]]
        /\ UNCHANGED <<request, gatewayVars, clientVars, marketVars, respStatus, respHasBody,
                       respClosed, bodyEnded, wire, screen, portfolio, auth>>

\* one iteration of the while loop of session s
SessionRead(s, n) ==
    /\ sessions[s].cpc = "reading"
    /\ n \in ReadSizes(sessions[s].wire)
    /\ OnlySession(s, SessionAfterRead(sessions[s], n, sessions[s].buffer))

\* reader.read() reports the end of the stream in session s
SessionReadEnd(s) ==
    LET r == sessions[s]
    IN  /\ r.cpc = "reading"
        /\ r.wire = <<>>
        /\ r.bodyEnded
        /\ OnlySession(s, [r EXCEPT !.calls = Append(@, OnDone), !.cpc = "returned"])

(***************************************************************************)
(* The chat screen.  A handler of a user event runs to its first await and *)
(* React renders before the next event; the state set by a callback of     *)
(* streamChat is rendered later, in a step of its own.                     *)
(***************************************************************************)
\* a render: the closures and the JSX see the state
Rendered(c) ==
    [c EXCEPT !.rendered = [messages |-> c.messages, input |-> c.input,
                            isStreaming |-> c.isStreaming]]

\* the screen alone changes
OnlyScreen(c) ==
    /\ screen' = c
    /\ UNCHANGED <<request, gatewayVars, clientVars, marketVars, sessions, respStatus,
                   respHasBody, respClosed, bodyEnded, wire, portfolio, auth>>

\* history: messages.map(m => ({ role, content })), as sendMessage sees them
ChatHistory(ms) == [i \in 1..Len(ms) |-> [role |-> ms[i].role, content |-> ms[i].content]]

\* variant: the guard tests the text alone
SendMessageUnguarded(c, text) ==
    IF Falsy(Trim(text)) THEN c
    ELSE [c EXCEPT
            !.messages = @ \o <<[id |-> c.nextId, role |-> "user", content |-> Trim(text)],
                                [id |-> c.nextId + 1, role |-> "assistant", content |-> <<>>]>>,
            !.input = <<>>,
            !.isStreaming = TRUE,
            !.streams = Append(@, [text |-> Trim(text),
                                   history |-> ChatHistory(c.rendered.messages),
                                   assistantId |-> c.nextId + 1,
                                   status |-> "open", chunks |-> 0]),
            !.nextId = @ + 2]

\* sendMessage(text) up to the await of streamChat
SendMessage(c, text) ==
    IF Falsy(Trim(text)) \/ c.rendered.isStreaming THEN c
    ELSE [c EXCEPT
            !.messages = @ \o <<[id |-> c.nextId, role |-> "user", content |-> Trim(text)],
                                [id |-> c.nextId + 1, role |-> "assistant", content |-> <<>>]>>,
            !.input = <<>>,
            !.isStreaming = TRUE,
            !.streams = Append(@, [text |-> Trim(text),
                                   history |-> ChatHistory(c.rendered.messages),
                                   assistantId |-> c.nextId + 1,
                                   status |-> "open", chunks |-> 0]),
            !.nextId = @ + 2]

\* the user edits the input field (editable={!isStreaming})
ChangeText(text) ==
    /\ ~screen.rendered.isStreaming
    /\ OnlyScreen(Rendered([screen EXCEPT !.input = text]))

\* the send button: disabled={!input.trim() || isStreaming}
PressSend ==
    /\ Len(screen.streams) < MaxTurns
    /\ ~(Falsy(Trim(screen.rendered.input)) \/ screen.rendered.isStreaming)
    /\ OnlyScreen(Rendered(SendMessage(screen, screen.rendered.input)))

\* onSubmitEditing of the input field
SubmitEditing ==
    /\ Len(screen.streams) < MaxTurns
    /\ ~screen.rendered.isStreaming
    /\ OnlyScreen(Rendered(SendMessage(screen, screen.rendered.input)))

\* a suggestion of the empty screen is pressed
PressSuggestion(s) ==
    /\ Len(screen.streams) < MaxTurns
    /\ screen.rendered.messages = <<>>
    /\ OnlyScreen(Rendered(SendMessage(screen, s)))

\* the clear button, shown when there are messages
PressClear ==
    /\ screen.rendered.messages # <<>>
    /\ OnlyScreen(Rendered([screen EXCEPT !.messages = <<>>]))

\* prev.map(m => m.id === assistantId ? { ...m, content: f(m.content) } : m)
MapAssistant(ms, assistantId, text, replace) ==
    [i \in 1..Len(ms) |->
        IF ms[i].id = assistantId
          THEN [ms[i] EXCEPT !.content = IF replace THEN text ELSE @ \o text]
          ELSE ms[i]]

\* stream k calls the onChunk of its turn
ChatOnChunk(k, chunk) ==
    /\ k \in 1..Len(screen.streams)
    /\ screen.streams[k].status = "open"
    /\ screen.streams[k].chunks < MaxChunks
    /\ OnlyScreen([screen EXCEPT
            !.messages = MapAssistant(@, screen.streams[k].assistantId, chunk, FALSE),
            !.streams[k].chunks = @ + 1])

\* stream k calls the onDone of its turn
ChatOnDone(k) ==
    /\ k \in 1..Len(screen.streams)
    /\ screen.streams[k].status = "open"
    /\ OnlyScreen([screen EXCEPT !.isStreaming = FALSE, !.streams[k].status = "done"])

\* variant: the error callback leaves isStreaming alone
ChatOnErrorKeepsStreaming(k) ==
    /\ k \in 1..Len(screen.streams)
    /\ screen.streams[k].status = "open"
    /\ OnlyScreen([screen EXCEPT
            !.messages = MapAssistant(@, screen.streams[k].assistantId, ApologyText, TRUE),
            !.streams[k].status = "error"])

\* stream k calls the onError of its turn
ChatOnError(k) ==
    /\ k \in 1..Len(screen.streams)
    /\ screen.streams[k].status = "open"
    /\ OnlyScreen([screen EXCEPT
            !.messages = MapAssistant(@, screen.streams[k].assistantId, ApologyText, TRUE),
            !.isStreaming = FALSE,
            !.streams[k].status = "error"])

\* React renders the state set by the callbacks
Render ==
    /\ screen.rendered # Rendered(screen).rendered
    /\ OnlyScreen(Rendered(screen))

(***************************************************************************)
(* The portfolio provider.  AsyncStorage.setItem and multiRemove take      *)
(* effect in the order they are called, so each is one step with its call; *)
(* the two getItem calls of the initial load return one by one, and the    *)
(* load goes on when both have.                                            *)
(***************************************************************************)
OnlyPortfolio(p) ==
    /\ portfolio' = p
    /\ UNCHANGED <<request, gatewayVars, clientVars, marketVars, sessions, screen, respStatus,
                   respHasBody, respClosed, bodyEnded, wire, auth>>

\* the app starts with h and w under the two keys; the effect of the
\* provider calls getItem on both
ProviderMounts(h, w) ==
    /\ portfolio.pc = "unmounted"
    /\ OnlyPortfolio([portfolio EXCEPT
            !.pc = "loading", !.storedHoldings = h, !.storedWatchlist = w,
            !.emptyStart = ~h.present /\ ~w.present])

\* AsyncStorage.getItem('portfolio_holdings') returns
GetHoldingsResolves ==
    /\ portfolio.pc = "loading"
    /\ portfolio.readHoldings = <<>>
    /\ OnlyPortfolio([portfolio EXCEPT !.readHoldings = <<portfolio.storedHoldings>>])

\* AsyncStorage.getItem('portfolio_watchlist') returns
GetWatchlistResolves ==
    /\ portfolio.pc = "loading"
    /\ portfolio.readWatchlist = <<>>
    /\ OnlyPortfolio([portfolio EXCEPT !.readWatchlist = <<portfolio.storedWatchlist>>])

\* variant: the load keeps the lists an operation has set meanwhile
LoadCompletesKeepsState ==
    /\ portfolio.pc = "loading"
    /\ portfolio.readHoldings # <<>> /\ portfolio.readWatchlist # <<>>
    /\ OnlyPortfolio([portfolio EXCEPT !.pc = "loaded"])

\* Promise.all resolves: if (h) setHoldings(JSON.parse(h)); if (w) ...
LoadCompletes ==
    /\ portfolio.pc = "loading"
    /\ portfolio.readHoldings # <<>> /\ portfolio.readWatchlist # <<>>
    /\ LET h == portfolio.readHoldings[1]
           w == portfolio.readWatchlist[1]
           hs == IF ItemTruthy(h) THEN ParseHoldings(h.text) ELSE portfolio.holdings
           ws == IF ItemTruthy(w) THEN ParseWatchlist(w.text) ELSE portfolio.watchlist
       IN  OnlyPortfolio([portfolio EXCEPT
                !.pc = "loaded", !.holdings = hs, !.watchlist = ws,
                !.overwrote = portfolio.ops > 0
                                /\ (hs # portfolio.holdings \/ ws # portfolio.watchlist)])

\* prev.filter(h => h.symbol !== symbol)
WithoutSymbol(hs, symbol) == SelectSeq(hs, LAMBDA h : h.symbol # symbol)

\* prev.includes(symbol)
IncludesSymbol(ws, symbol) == \E i \in 1..Len(ws) : ws[i] = symbol

\* an operation of the context can be called once the provider is mounted
CanOperate == portfolio.pc # "unmounted" /\ portfolio.ops < MaxOps

\* variant: the new entry is added and an entry of the same symbol stays
AddHoldingAppends(item) ==
    /\ CanOperate
    /\ LET next == Append(portfolio.holdings, item)
       IN  OnlyPortfolio([portfolio EXCEPT
                !.holdings = next, !.storedHoldings = Item(StringifyHoldings(next)),
                !.ops = @ + 1,
                !.last = Called("addHolding", item.symbol, item.quantity),
                !.sinceClear = @ \cup {<<"holdings", item.symbol>>}])

AddHolding(item) ==
    /\ CanOperate
    /\ LET next == Append(WithoutSymbol(portfolio.holdings, item.symbol), item)
       IN  OnlyPortfolio([portfolio EXCEPT
                !.holdings = next, !.storedHoldings = Item(StringifyHoldings(next)),
                !.ops = @ + 1,
                !.last = Called("addHolding", item.symbol, item.quantity),
                !.sinceClear = @ \cup {<<"holdings", item.symbol>>}])

RemoveHolding(symbol) ==
    /\ CanOperate
    /\ LET next == WithoutSymbol(portfolio.holdings, symbol)
       IN  OnlyPortfolio([portfolio EXCEPT
                !.holdings = next, !.storedHoldings = Item(StringifyHoldings(next)),
                !.ops = @ + 1, !.last = Called("removeHolding", symbol, 0)])

AddToWatchlist(symbol) ==
    /\ CanOperate
    /\ IF IncludesSymbol(portfolio.watchlist, symbol)
         THEN OnlyPortfolio([portfolio EXCEPT
                !.ops = @ + 1, !.last = Called("addToWatchlist", symbol, 0),
                !.watched = @ \cup {symbol},
                !.sinceClear = @ \cup {<<"watchlist", symbol>>}])
         ELSE LET next == Append(portfolio.watchlist, symbol)
              IN  OnlyPortfolio([portfolio EXCEPT
                     !.watchlist = next,
                     !.storedWatchlist = Item(StringifyWatchlist(next)),
                     !.ops = @ + 1, !.last = Called("addToWatchlist", symbol, 0),
                !.watched = @ \cup {symbol},
                     !.sinceClear = @ \cup {<<"watchlist", symbol>>}])

RemoveFromWatchlist(symbol) ==
    /\ CanOperate
    /\ LET next == SelectSeq(portfolio.watchlist, LAMBDA s : s # symbol)
       IN  OnlyPortfolio([portfolio EXCEPT
                !.watchlist = next, !.storedWatchlist = Item(StringifyWatchlist(next)),
                !.ops = @ + 1, !.last = Called("removeFromWatchlist", symbol, 0),
                !.watched = @ \ {symbol}])

IsInWatchlist(symbol) == IncludesSymbol(portfolio.watchlist, symbol)

\* Settings, Clear Data, Clear: multiRemove of the two keys
HandleClearData ==
    /\ portfolio.pc # "unmounted"
    /\ ~portfolio.cleared
    /\ OnlyPortfolio([portfolio EXCEPT
            !.storedHoldings = NoItem, !.storedWatchlist = NoItem,
            !.cleared = TRUE, !.sinceClear = {}])

(***************************************************************************)
(* The auth provider.  login and signup run from the call to the return;   *)
(* at most one of the calls they await rejects, which takes them to their  *)
(* catch.  A setItem that rejects has written nothing.                     *)
(***************************************************************************)
OnlyAuth(a) ==
    /\ auth' = a
    /\ UNCHANGED <<request, gatewayVars, clientVars, marketVars, sessions, screen, portfolio,
                   respStatus, respHasBody, respClosed, bodyEnded, wire>>

\* users[key], as <<>> or <<record>>
UserRecord(users, key) ==
    IF \E r \in users : r.key = key
      THEN <<CHOOSE r \in users : r.key = key>>
      ELSE <<>>

\* the call and what it returned, with the state it found
Returned(a, op, email, password, rejects, success, error) ==
    [a EXCEPT
        !.history = Append(auth.history,
                           [op |-> op, email |-> email, password |-> password,
                            rejects |-> rejects, success |-> success, error |-> error]),
        !.before = [user |-> auth.user, authUser |-> auth.authUser, users |-> auth.users]]

CanCall == Len(auth.history) < MaxAuthOps

Login(email, password, rejects) ==
    /\ CanCall
    /\ LET userRecord == UserRecord(auth.users, ToLowerCase(email))
           failed(error) == OnlyAuth(Returned(auth, "login", email, password, rejects,
                                               FALSE, error))
       IN  IF rejects = "getItem" THEN failed(LoginFailed)
           ELSE IF userRecord = <<>> THEN failed(AccountNotFound)
           ELSE IF rejects = "digest" THEN failed(LoginFailed)
           ELSE IF HashPassword(password) # userRecord[1].passwordHash
             THEN failed(InvalidPassword)
           ELSE IF rejects = "setItem auth_user" THEN failed(LoginFailed)
           ELSE LET u == [id |-> userRecord[1].id, email |-> userRecord[1].email,
                          name |-> userRecord[1].name]
                IN  OnlyAuth(Returned([auth EXCEPT !.authUser = <<u>>, !.user = <<u>>],
                                      "login", email, password, rejects, TRUE, <<>>))

Signup(name, email, password, rejects) ==
    /\ CanCall
    /\ LET key == ToLowerCase(email)
           failed(a, error) == OnlyAuth(Returned(a, "signup", email, password, rejects,
                                                  FALSE, error))
       IN  IF rejects = "getItem" THEN failed(auth, SignupFailed)
           ELSE IF UserRecord(auth.users, key) # <<>>
             THEN failed(auth, EmailAlreadyRegistered)
           ELSE IF rejects = "digest" THEN failed(auth, SignupFailed)
           ELSE IF rejects = "setItem registered_users"
             THEN failed([auth EXCEPT !.nextId = @ + 1], SignupFailed)
           ELSE LET record == [key |-> key, id |-> auth.nextId, name |-> name,
                               email |-> key, passwordHash |-> HashPassword(password)]
                    u == [id |-> auth.nextId, email |-> key, name |-> name]
                    registered == [auth EXCEPT !.users = @ \cup {record}, !.nextId = @ + 1]
                IN  IF rejects = "setItem auth_user"
                      THEN failed(registered, SignupFailed)
                      ELSE OnlyAuth(Returned([registered EXCEPT
                                                 !.authUser = <<u>>, !.user = <<u>>],
                                             "signup", email, password, rejects,
                                             TRUE, <<>>))

Logout ==
    /\ CanCall
    /\ OnlyAuth(Returned([auth EXCEPT !.authUser = <<>>, !.user = <<>>],
                         "logout", <<>>, <<>>, "none", TRUE, <<>>))

(***************************************************************************)
(* Specifications.                                                         *)
(***************************************************************************)
NextGateway ==
    \/ \E m \in Messages, h \in Histories : PostChat(m, h)
    \/ ChatHandler
    \/ CreateRejects
    \/ CreateResolves
    \/ \E d \in Fragments : StreamYields(d)
    \/ StreamEnds
    \/ StreamRaises

\* the gateway alone, under every upstream behaviour
SpecGateway == Init /\ [][NextGateway]_vars

NextClient ==
    \/ StreamChat(<<"h", "i">>, <<>>)
    \/ \E msg \in ErrorMessages : FetchRejects(msg)
    \/ \E st \in StubStatuses, hb \in BOOLEAN, body \in StubBodies : StubResponds(st, hb, body)
    \/ FetchResolves
    \/ \E n \in 1..Len(wire) : Read(n)
    \/ ReadEnd
    \/ \E msg \in ErrorMessages : ReadRejects(msg)

\* streamChat alone, against a server that sends any body in any chunking
SpecClient == Init /\ [][NextClient]_vars

Next ==
    \/ \E m \in ClientMessages, h \in ClientHistories : StreamChat(m, h)
    \/ \E msg \in ErrorMessages : FetchRejects(msg)
    \/ FetchResolves
    \/ \E n \in 1..Len(wire) : Read(n)
    \/ ReadEnd
    \/ \E msg \in ErrorMessages : ReadRejects(msg)
    \/ ConnectionEnds
    \/ ChatHandler
    \/ CreateRejects
    \/ CreateResolves
    \/ \E d \in Fragments : StreamYields(d)
    \/ StreamEnds
    \/ StreamRaises

\* streamChat against the gateway
Spec == Init /\ [][Next]_vars

NextQuotes ==
    \/ ClockTicks
    \/ \E symbol \in QuoteSymbols : ReadStockPrice(symbol)

\* the quote generator under a running clock
SpecQuotes == Init /\ [][NextQuotes]_vars

\* the body stream of session s ends while its handler is still writing
SessionConnectionEnds(s) ==
    LET r == sessions[s]
    IN  /\ r.cpc \in {"fetching", "reading"}
        /\ r.respStatus # 0
        /\ ~r.bodyEnded
        /\ OnlySession(s, [r EXCEPT !.bodyEnded = TRUE, !.cut = TRUE])

NextSessions ==
    \E s \in Sessions :
        \/ \E m \in SessionMessages : SessionStreamChat(s, m)
        \/ SessionChatHandler(s)
        \/ SessionCreateRejects(s)
        \/ SessionCreateResolves(s)
        \/ SessionStreamYields(s, SessionFragments[s])
        \/ SessionStreamEnds(s)
        \/ SessionStreamRaises(s)
        \/ SessionFetchResolves(s)
        \/ \E n \in ReadSizes(sessions[s].wire) : SessionRead(s, n)
        \/ SessionReadEnd(s)
        \/ SessionConnectionEnds(s)

\* several sessions in flight at once
SpecSessions == Init /\ [][NextSessions]_vars

NextChat ==
    \/ \E text \in InputTexts : ChangeText(text)
    \/ PressSend
    \/ SubmitEditing
    \/ \E s \in Suggestions : PressSuggestion(s)
    \/ PressClear
    \/ \E k \in 1..MaxTurns, chunk \in ChatChunks : ChatOnChunk(k, chunk)
    \/ \E k \in 1..MaxTurns : ChatOnDone(k)
    \/ \E k \in 1..MaxTurns : ChatOnError(k)
    \/ Render

\* the chat screen under every order of user events and callbacks
SpecChat == Init /\ [][NextChat]_vars

\* the same, where every stream terminates and React gets to render
SpecChatLive ==
    /\ SpecChat
    /\ WF_vars(\E k \in 1..MaxTurns : ChatOnDone(k) \/ ChatOnError(k))
    /\ WF_vars(Render)

NextPortfolio ==
    \/ \E h \in StoredHoldingsAtStart, w \in StoredWatchlistAtStart : ProviderMounts(h, w)
    \/ GetHoldingsResolves
    \/ GetWatchlistResolves
    \/ LoadCompletes
    \/ \E item \in PortfolioItems : AddHolding(item)
    \/ \E symbol \in PortfolioSymbols : RemoveHolding(symbol)
    \/ \E symbol \in PortfolioSymbols : AddToWatchlist(symbol)
    \/ \E symbol \in PortfolioSymbols : RemoveFromWatchlist(symbol)

SpecPortfolio == Init /\ [][NextPortfolio]_vars

NextSettings ==
    \/ NextPortfolio
    \/ HandleClearData

SpecSettings == Init /\ [][NextSettings]_vars

NextAuth ==
    \/ \E email \in Emails, password \in Passwords, rejects \in LoginAwaits :
          Login(email, password, rejects)
    \/ \E email \in Emails, password \in Passwords, rejects \in SignupAwaits :
          Signup(UserName, email, password, rejects)
    \/ Logout

SpecAuth == Init /\ [][NextAuth]_vars

(***************************************************************************)
(* The StreamEvent sequence a response carries, read back from the bytes   *)
(* given to res.write.                                                     *)
(***************************************************************************)
\* an HTTP success status
SuccessStatus(st) == st \in 200..299

NoEvent == [type |-> "none", text |-> <<>>]
ContentEvent(text) == [type |-> "content", text |-> text]
DoneEvent == [type |-> "done", text |-> <<>>]
ErrorEvent(text) == [type |-> "error", text |-> text]

\* the event of one frame `data: <json>\n\n`
FrameEvent(w) ==
    IF ~ /\ StartsWith(w, DataPrefix)
         /\ Len(w) >= Len(DataPrefix) + Len(FrameEnd)
         /\ SubSeq(w, Len(w) - Len(FrameEnd) + 1, Len(w)) = FrameEnd
    THEN NoEvent
    ELSE LET payload == SubSeq(w, Len(DataPrefix) + 1, Len(w) - Len(FrameEnd))
             d == JSONParse(payload)
         IN  IF FindNewline(payload, 1) # 0 \/ ~d.ok THEN NoEvent
             ELSE IF d.done = BoolV(TRUE) THEN DoneEvent
             ELSE IF d.error.kind = "string" THEN ErrorEvent(d.error.s)
             ELSE IF d.content.kind = "string" THEN ContentEvent(d.content.s)
             ELSE NoEvent

WrittenEvents == [i \in 1..Len(resWrites) |-> FrameEvent(resWrites[i])]

IsTerminal(ev) == ev.type \in {"done", "error"}

NonEmpty(f) == Len(f) > 0

\* one content event per non-empty fragment, in the order yielded
ContentEventsOf(frags) ==
    LET ne == SelectSeq(frags, NonEmpty)
    IN  [i \in 1..Len(ne) |-> ContentEvent(ne[i])]

(***************************************************************************)
(* Chat gateway.                                                           *)
(***************************************************************************)
\* C1: the frames a response carries are all StreamEvents, at most one of
\* them is terminal (done or error), and the terminal one is the last: no
\* content event follows it.
C1_AtMostOneTerminalLast ==
    \A i \in 1..Len(resWrites) :
        /\ WrittenEvents[i].type # "none"
        /\ IsTerminal(WrittenEvents[i]) => i = Len(resWrites)

C1_Witness ==
    /\ Len(resWrites) >= 3
    /\ IsTerminal(WrittenEvents[Len(resWrites)])
    /\ gpc = "finished"

\* C2: after the upstream stream has ended normally the response carries
\* one content event per non-empty fragment, with that fragment's text and
\* in the order received, then one done event, no error event, and it is
\* ended.
C2_NormalCompletion ==
    upstream = "ended" =>
        /\ WrittenEvents = ContentEventsOf(yielded) \o <<DoneEvent>>
        /\ respClosed
        /\ resJson = <<>>
        /\ respStatus = 200
        /\ gpc = "finished"

C2_Witness ==
    /\ upstream = "ended"
    /\ Len(yielded) = 2
    /\ NonEmpty(yielded[1]) /\ NonEmpty(yielded[2])
    /\ yielded[1] # yielded[2]

\* C3: when the upstream stream fails after a content event has been
\* written, the response carries the content events written so far, then
\* one error event with the message "AI service error", no done event, and
\* it is ended.
C3_MidStreamError ==
    (upstream = "raised" /\ \E i \in 1..Len(yielded) : NonEmpty(yielded[i])) =>
        /\ WrittenEvents = ContentEventsOf(yielded) \o <<ErrorEvent(AIServiceError)>>
        /\ NonEmpty(AIServiceError)
        /\ respClosed
        /\ resJson = <<>>
        /\ gpc = "finished"

C3_Witness ==
    /\ upstream = "raised"
    /\ Len(resWrites) = 2
    /\ WrittenEvents[1].type = "content"
    /\ WrittenEvents[2].type = "error"

\* C4: when create() rejects, the response is one synchronous error: status
\* 500, a JSON body, ended, and no frame written.
C4_SetupFailureIsSynchronous ==
    upstream = "rejected" =>
        /\ resWrites = <<>>
        /\ respStatus = 500
        /\ ~SuccessStatus(respStatus)
        /\ JSONParse(resJson).error = StrV(FailedToProcessChat)
        /\ wire = resJson
        /\ respClosed
        /\ gpc = "finished"

C4_Witness ==
    /\ upstream = "rejected"
    /\ respStatus = 500

\* a string of spaces and newlines only (the empty string included)
RECURSIVE IsBlank(_)
IsBlank(s) == Len(s) = 0 \/ (Head(s) \in {" ", "\n"} /\ IsBlank(Tail(s)))

Handled == gpc # "listening"

\* C5: a request whose message is empty or whitespace-only gets a
\* synchronous failure, no frame, and no upstream request is opened.
C5_BlankMessageNeverStreams ==
    (Handled /\ IsBlank(gmessage)) =>
        /\ resWrites = <<>>
        /\ upstreamRequests = 0
        /\ respStatus = 400

(***************************************************************************)
(* Stream client.  The lines of the bytes read so far that a newline ends, *)
(* and what each of them is.                                               *)
(***************************************************************************)
CompleteLines == Front(Split(received))

LineData(l) == JSONParse(SubSeq(l, Len(DataPrefix) + 1, Len(l)))
IsFrameLine(l) == StartsWith(l, DataPrefix) /\ LineData(l).ok
IsMalformedLine(l) == StartsWith(l, DataPrefix) /\ ~LineData(l).ok
IsDoneLine(l) == IsFrameLine(l) /\ Truthy(LineData(l).done)
IsErrorLine(l) ==
    IsFrameLine(l) /\ ~Truthy(LineData(l).done) /\ Truthy(LineData(l).error)
IsContentLine(l) ==
    /\ IsFrameLine(l)
    /\ ~Truthy(LineData(l).done)
    /\ ~Truthy(LineData(l).error)
    /\ Truthy(LineData(l).content)
IsTerminalLine(l) == IsDoneLine(l) \/ IsErrorLine(l)

\* index of the first done or error frame of ls, 0 when there is none
FirstTerminal(ls) ==
    IF \E k \in 1..Len(ls) : IsTerminalLine(ls[k])
    THEN CHOOSE k \in 1..Len(ls) :
            /\ IsTerminalLine(ls[k])
            /\ \A j \in 1..(k - 1) : ~IsTerminalLine(ls[j])
    ELSE 0

\* onChunk for every content frame of ls, in order
ChunkCalls(ls) ==
    LET c == SelectSeq(ls, IsContentLine)
    IN  [i \in 1..Len(c) |-> OnChunk(LineData(c[i]).content)]

\* the response was received with a success status and a body, and no
\* fetch or read has rejected
Streamed == SuccessStatus(respStatus) /\ respHasBody /\ ~netError

\* C6: once a done frame has been read as the first terminal frame,
\* streamChat has returned and its callbacks are the onChunk calls of the
\* content frames before it followed by one onDone: nothing is dispatched
\* for frames after it, whether read with it or still to arrive.
C6_DoneFrameStops ==
    LET L == CompleteLines
        k == FirstTerminal(L)
    IN  (k # 0 /\ IsDoneLine(L[k])) =>
            /\ cpc = "returned"
            /\ calls = ChunkCalls(SubSeq(L, 1, k - 1)) \o <<OnDone>>

C6_Witness ==
    LET L == CompleteLines
        k == FirstTerminal(L)
    IN  /\ k # 0 /\ IsDoneLine(L[k])
        /\ k < Len(L) /\ IsFrameLine(L[k + 1])
        /\ cpc = "returned"

\* C7: once an error frame has been read as the first terminal frame,
\* streamChat has returned and its callbacks are the onChunk calls of the
\* content frames before it followed by one onError with that frame's
\* message; the end of the stream adds no onDone.
C7_ErrorFrameStops ==
    LET L == CompleteLines
        k == FirstTerminal(L)
    IN  (k # 0 /\ IsErrorLine(L[k])) =>
            /\ cpc = "returned"
            /\ calls = ChunkCalls(SubSeq(L, 1, k - 1)) \o <<OnError(LineData(L[k]).error)>>

C7_Witness ==
    LET L == CompleteLines
        k == FirstTerminal(L)
    IN  /\ k > 1 /\ IsErrorLine(L[k])
        /\ wire = <<>> /\ bodyEnded
        /\ Len(calls) = 2 /\ calls[2].cb = "onError"

\* C8: when streamChat has returned after a success status without having
\* read a done or error frame and without a rejected read, the stream has
\* ended and the callbacks are the onChunk calls of the content frames
\* followed by exactly one onDone, and no onError.
C8_EndOfStreamFallback ==
    (cpc = "returned" /\ Streamed /\ FirstTerminal(CompleteLines) = 0) =>
        /\ wire = <<>>
        /\ bodyEnded
        /\ calls = ChunkCalls(CompleteLines) \o <<OnDone>>

C8_Witness ==
    /\ cpc = "returned" /\ Streamed /\ FirstTerminal(CompleteLines) = 0
    /\ Len(calls) = 2 /\ calls[1].cb = "onChunk" /\ calls[2].cb = "onDone"

\* C9: when the response has a non-success status, streamChat returns with
\* the single callback onError('Failed to connect to AI') and reads nothing
\* of the body; and every synchronous failure of the gateway (400, 500)
\* has such a status, so the caller sees exactly one onError.
C9_NonSuccessStatus ==
    /\ (cpc = "returned" /\ ~netError /\ respStatus # 0 /\ ~SuccessStatus(respStatus)) =>
            /\ calls = <<OnError(StrV(FailedToConnect))>>
            /\ received = <<>>
            /\ buffer = <<>>
    /\ resJson # <<>> => /\ respStatus \in {400, 500}
                         /\ ~SuccessStatus(respStatus)
                         /\ cpc # "reading"
    /\ (resJson # <<>> /\ cpc = "returned") =>
            /\ Len(calls) = 1
            /\ calls[1].cb = "onError"

C9_Witness ==
    /\ cpc = "returned" /\ ~netError
    /\ respStatus = 400
    /\ resJson # <<>>
    /\ wire # <<>>

\* the complete lines that are well-formed frames
FrameLines == SelectSeq(CompleteLines, IsFrameLine)

\* C10: when the lines read so far include lines that are no well-formed
\* frame (prefix with an unparseable payload, or no prefix), the callbacks
\* are those of the well-formed frames alone: the onChunk calls up to the
\* first terminal frame and its callback, and streamChat goes on reading
\* until then.
C10_MalformedLinesSkipped ==
    LET G == FrameLines
        k == FirstTerminal(G)
    IN  ((\E i \in 1..Len(CompleteLines) : ~IsFrameLine(CompleteLines[i]))
         /\ Streamed /\ cpc \in {"reading", "returned"}) =>
            IF k # 0
            THEN /\ cpc = "returned"
                 /\ calls = ChunkCalls(SubSeq(G, 1, k - 1))
                            \o <<IF IsDoneLine(G[k]) THEN OnDone
                                 ELSE OnError(LineData(G[k]).error)>>
            ELSE calls = ChunkCalls(G) \o (IF cpc = "returned" THEN <<OnDone>> ELSE <<>>)

C10_Witness ==
    /\ Len(CompleteLines) = 2
    /\ IsMalformedLine(CompleteLines[1])
    /\ IsContentLine(CompleteLines[2])
    /\ cpc = "reading"
    /\ Len(calls) = 1 /\ calls[1].cb = "onChunk"

(***************************************************************************)
(* Failures of the connection itself.                                      *)
(***************************************************************************)
\* the exception streamChat caught was raised by fetch, before any response
FetchFailed == exception # <<>> /\ exception[1].at = "fetching"

\* C11 as stated: when fetch raises before any response is received,
\* onError is invoked exactly once with the exception's own message text,
\* onChunk and onDone are never invoked, and streamChat returns normally.
C11_FetchExceptionOwnMessage ==
    FetchFailed =>
        /\ calls = <<OnError(StrV(exception[1].message))>>
        /\ cpc = "returned"

\* C11, amended: when fetch raises before any response is received, onError
\* is invoked exactly once, with the exception's message text when that text
\* is not empty and with 'Network error' when it is empty; onChunk and
\* onDone are never invoked, and streamChat returns normally.
C11_FetchExceptionReported ==
    FetchFailed =>
        /\ calls = <<OnError(StrV(IF exception[1].message = <<>>
                                    THEN NetworkError
                                    ELSE exception[1].message))>>
        /\ cpc = "returned"

\* fetch has raised an exception carrying a message, with nothing received
C11_Witness ==
    /\ FetchFailed
    /\ exception[1].message = <<"E", "1">>
    /\ respStatus = 0
    /\ cpc = "returned"
    /\ Len(calls) = 1

(***************************************************************************)
(* The reader of the response body.                                        *)
(***************************************************************************)
\* C12: on every exit path of the read loop (done frame, error frame, end
\* of stream without a terminal frame, exception during read) the reader of
\* the response body has been released when streamChat returns.
C12_ReaderReleasedOnReturn == cpc = "returned" => ~readerHeld

(***************************************************************************)
(* The gateway and streamChat together.                                    *)
(***************************************************************************)
\* the bytes of ws, one after the other
RECURSIVE Concat(_)
Concat(ws) == IF ws = <<>> THEN <<>> ELSE Head(ws) \o Concat(Tail(ws))

\* every byte the gateway has written has reached the client or is on its
\* way: the connection was not cut under the gateway
Delivered == Concat(resWrites) = received \o wire

\* one onChunk per non-empty fragment, in the order yielded
ChunkCallsOf(frags) ==
    LET ne == SelectSeq(frags, NonEmpty)
    IN  [i \in 1..Len(ne) |-> OnChunk(StrV(ne[i]))]

IsChunkCall(c) == c.cb = "onChunk"

IsPrefix(s, t) == Len(s) <= Len(t) /\ s = SubSeq(t, 1, Len(s))

\* C13: for a valid request and a provider that yields fragments and ends
\* normally, the caller's callbacks are onChunk(f) for each non-empty
\* fragment f in the order yielded, one call per fragment, then onDone
\* once, and never onError; while the stream is under way the onChunk calls
\* made so far are a prefix of that sequence.
C13_EndToEndNormal ==
    (Streamed /\ Delivered /\ upstream \in {"open", "ended"}) =>
        LET chunks == SelectSeq(calls, IsChunkCall)
        IN  /\ \A i \in 1..Len(calls) : calls[i].cb # "onError"
            /\ IsPrefix(chunks, ChunkCallsOf(yielded))
            /\ calls \in {chunks, chunks \o <<OnDone>>}
            /\ (upstream = "ended" /\ cpc = "returned") =>
                    calls = ChunkCallsOf(yielded) \o <<OnDone>>

\* two distinct non-empty fragments, a normal end, and the caller has been
\* told of both and of the end
C13_Witness ==
    /\ Streamed /\ Delivered
    /\ upstream = "ended" /\ cpc = "returned"
    /\ Len(yielded) = 2
    /\ NonEmpty(yielded[1]) /\ NonEmpty(yielded[2])
    /\ yielded[1] # yielded[2]
    /\ Len(calls) = 3

\* C14: for a valid request and a provider that yields at least one
\* non-empty fragment and then raises, the caller's callbacks are onChunk(f)
\* for each non-empty fragment f in the order yielded, then one
\* onError("AI service error"), and nothing else: onDone is never called.
C14_EndToEndMidStreamError ==
    (/\ Streamed /\ Delivered
     /\ upstream = "raised"
     /\ \E i \in 1..Len(yielded) : NonEmpty(yielded[i])) =>
        /\ \A i \in 1..Len(calls) : calls[i].cb # "onDone"
        /\ cpc = "returned" =>
                calls = ChunkCallsOf(yielded) \o <<OnError(StrV(AIServiceError))>>

\* a fragment, then the failure, and the caller has been told of both
C14_Witness ==
    /\ Streamed /\ Delivered
    /\ upstream = "raised" /\ cpc = "returned"
    /\ Len(yielded) >= 1
    /\ \A i \in 1..Len(yielded) : NonEmpty(yielded[i])
    /\ Len(calls) = Len(yielded) + 1
    /\ calls[Len(calls)].cb = "onError"

(***************************************************************************)
(* The enrichment context and the upstream request.                        *)
(***************************************************************************)
\* an upstream request was built for the handled message
SentUpstream == upstreamMessages # <<>>

\* the lines of the market data block of the system message sent upstream
ContextLines == upstreamMessages[1].content.stockContext

\* the context holds a quote line for symbol s
HasQuoteLine(s) ==
    \E j \in 1..Len(ContextLines) :
        ContextLines[j].line = "quote" /\ ContextLines[j].symbol = s

\* character c is the letter u, in either case
Folds(c, u) == c = u \/ \E i \in 1..Len(LowerCase) : LowerCase[i] = c /\ UpperCase[i] = u

\* symbol s occurs in message m at some position, the case of m ignored
OccursIgnoringCase(s, m) ==
    \E k \in 0..(Len(m) - Len(s)) : \A j \in 1..Len(s) : Folds(m[k + j], s[j])

\* C15: for every message and every known symbol s, the context sent
\* upstream has a quote line for s if and only if s occurs in the message
\* as a substring, the case of the message ignored; a symbol inside a
\* longer word counts.
C15_QuoteLineIffSubstring ==
    SentUpstream =>
        \A i \in 1..Len(GetAllSymbols) :
            HasQuoteLine(GetAllSymbols[i]) <=> OccursIgnoringCase(GetAllSymbols[i], gmessage)

\* "amd vs": AMD named in lower case, and V inside the word "vs"
C15_Witness ==
    /\ SentUpstream
    /\ gmessage = <<"a", "m", "d", " ", "v", "s">>
    /\ HasQuoteLine(<<"V">>)
    /\ HasQuoteLine(<<"A", "M", "D">>)
    /\ ~HasQuoteLine(<<"A", "A", "P", "L">>)

\* the index entries of the system message sent upstream, by name
IndexNames ==
    LET ic == upstreamMessages[1].content.indexContext
    IN  [i \in 1..Len(ic) |-> ic[i].name]

\* C16: for a message in which no known symbol occurs, the context sent
\* upstream has no market data block at all (no 'Current market data'
\* header, no quote line), only the index summary; and for every message
\* the index summary is there with all three indices.
C16_IndexSummaryAlways ==
    SentUpstream =>
        /\ (\A i \in 1..Len(GetAllSymbols) : ~OccursIgnoringCase(GetAllSymbols[i], gmessage))
                => ContextLines = <<>>
        /\ IndexNames = <<"S&P 500", "NASDAQ", "DOW">>

\* "hi" names no symbol and went upstream with the index summary alone
C16_Witness ==
    /\ SentUpstream
    /\ gmessage = <<"h", "i">>
    /\ ContextLines = <<>>
    /\ Len(IndexNames) = 3

\* the caller's history: the turns of req.body.history, none when it is absent
CallerHistory == IF ghistory.kind = "undefined" THEN <<>> ELSE ghistory.s

\* C17: the messages sent upstream are one system message, then every
\* turn of the caller's history with its role and content, in the caller's
\* order, then the new user message last; there are len(history) + 2 of
\* them, an absent history counting as empty.
C17_UpstreamMessageList ==
    SentUpstream =>
        /\ Len(upstreamMessages) = Len(CallerHistory) + 2
        /\ upstreamMessages[1].role = "system"
        /\ \A i \in 1..Len(CallerHistory) : upstreamMessages[i + 1] = CallerHistory[i]
        /\ upstreamMessages[Len(upstreamMessages)] = [role |-> "user", content |-> gmessage]

\* a request with two prior turns went upstream as four messages
C17_Witness ==
    /\ SentUpstream
    /\ ghistory.kind = "array"
    /\ Len(ghistory.s) = 2
    /\ ghistory.s[1] # ghistory.s[2]
    /\ Len(upstreamMessages) = 4

\* C18: a chat request opens at most one upstream request; once the
\* upstream has failed, at setup or mid-stream, that one request is all
\* there was, the handler is finished and the failure is the outcome of
\* the response (an error frame last, or the res.json failure), which is
\* ended; and one streamChat call makes exactly one fetch.
C18_NoRetry ==
    /\ upstreamRequests <= 1
    /\ upstream \in {"rejected", "raised"} =>
            /\ upstreamRequests = 1
            /\ gpc = "finished"
            /\ respClosed
            /\ \/ resJson # <<>> /\ resWrites = <<>>
               \/ /\ resWrites # <<>>
                  /\ WrittenEvents[Len(resWrites)] = ErrorEvent(AIServiceError)
    /\ fetches <= 1
    /\ cpc # "idle" => fetches = 1

\* the upstream failed mid-stream and the caller has got the outcome, after
\* one fetch and one upstream request
C18_Witness ==
    /\ upstream = "raised"
    /\ cpc = "returned"
    /\ resWrites # <<>>
    /\ fetches = 1
    /\ upstreamRequests = 1

(***************************************************************************)
(* The quote generator.                                                    *)
(***************************************************************************)
\* the minute an instant falls in
MinuteBucket(t) == t \div 60000

\* C20: two reads of the same symbol at instants of the same minute return
\* the same price, and two distinct symbols read at the same instant are
\* seeded differently.
C20_DeterministicPerMinuteAndSymbol ==
    \A i, j \in 1..Len(priceReads) :
        LET a == priceReads[i]
            b == priceReads[j]
        IN  /\ (a.symbol = b.symbol /\ MinuteBucket(a.at) = MinuteBucket(b.at))
                    => a.price = b.price
            /\ (a.symbol # b.symbol /\ a.at = b.at) => a.seed # b.seed

(***************************************************************************)
(* Concurrent sessions.                                                    *)
(***************************************************************************)
\* the events a lone handler writes for the fragments and the outcome of
\* an upstream stream
EventsAlone(frags, outcome) ==
    ContentEventsOf(frags) \o
        (IF outcome = "ended" THEN <<DoneEvent>>
         ELSE IF outcome = "raised" /\ ContentEventsOf(frags) # <<>>
           THEN <<ErrorEvent(AIServiceError)>>
         ELSE <<>>)

\* the callback of a done or error frame
TerminalCall(l) == IF IsDoneLine(l) THEN OnDone ELSE OnError(LineData(l).error)

\* the callbacks a lone streamChat has made when it has read the bytes got
\* and has or has not returned
CallsAlone(got, returned) ==
    LET L == Front(Split(got))
        k == FirstTerminal(L)
    IN  IF k # 0 THEN ChunkCalls(SubSeq(L, 1, k - 1)) \o <<TerminalCall(L[k])>>
        ELSE IF returned THEN ChunkCalls(L) \o <<OnDone>>
        ELSE ChunkCalls(L)

\* C19: with several chat sessions in flight and their steps interleaved
\* in any order, each session's response carries the events of its own
\* upstream stream alone, its client has received bytes of its own response
\* alone (all of them unless its connection was cut), its partial line is the tail of those bytes, and its callbacks
\* are the ones a lone streamChat makes on those bytes: nothing of another
\* session appears in it or is missing from it.
C19_SessionsIndependent ==
    \A s \in Sessions :
        LET r == sessions[s]
        IN  /\ [i \in 1..Len(r.resWrites) |-> FrameEvent(r.resWrites[i])]
                    = EventsAlone(r.yielded, r.upstream)
            /\ IsPrefix(r.received \o r.wire, Concat(r.resWrites) \o r.resJson)
            /\ ~r.cut =>
                    r.received \o r.wire = Concat(r.resWrites) \o r.resJson
            /\ r.buffer = Last(Split(r.received))
            /\ r.calls = IF r.cpc \in {"idle", "fetching"} THEN <<>>
                         ELSE IF ~SuccessStatus(r.respStatus)
                           THEN <<OnError(StrV(FailedToConnect))>>
                         ELSE CallsAlone(r.received, r.cpc = "returned")

\* two sessions are reading at once, each in the middle of a line, one
\* streaming "A" and the other "B"
C19_Witness ==
    /\ sessions["s1"].cpc = "reading" /\ sessions["s2"].cpc = "reading"
    /\ sessions["s1"].yielded = <<<<"A">>>> /\ sessions["s2"].yielded = <<<<"B">>>>
    /\ sessions["s1"].buffer # <<>> /\ sessions["s2"].buffer # <<>>
    /\ sessions["s1"].received # sessions["s2"].received

(***************************************************************************)
(* Chunking of the response bytes.                                         *)
(***************************************************************************)
\* the fragment that holds a quote, a backslash, a newline and 'data: '
HostileFragment == <<"\"", "\\", "\n", "d", "a", "t", "a", ":", " ">>

\* C21: the callbacks of streamChat are a function of the bytes read so
\* far, whatever reads they arrived in (a read may end inside a frame,
\* inside the 'data: ' prefix or between the two newlines of a frame); and
\* against the gateway every non-empty fragment, also one that holds
\* newlines or the text 'data: ', reaches onChunk unchanged as one chunk.
C21_ChunkingIndependent ==
    /\ Streamed => calls = CallsAlone(received, cpc = "returned")
    /\ (Streamed /\ Delivered /\ cpc = "returned" /\ upstream \in {"ended", "raised"}) =>
            SelectSeq(calls, IsChunkCall) = ChunkCallsOf(yielded)

\* the fragment with the newline and 'data: ' has been delivered as one
\* chunk, and the last read ended inside the 'data: ' prefix of the next
\* frame
C21_Witness ==
    /\ Streamed /\ cpc = "reading"
    /\ yielded # <<>> /\ yielded[1] = HostileFragment
    /\ calls = <<OnChunk(StrV(HostileFragment))>>
    /\ Len(buffer) > 0 /\ Len(buffer) < PrefixLen

(***************************************************************************)
(* The terminal callback.                                                  *)
(***************************************************************************)
IsTerminalCall(c) == c.cb \in {"onDone", "onError"}

\* C22: streamChat makes at most one terminal callback (onDone or
\* onError), makes it last (no onChunk follows it), and has made exactly
\* one when it has returned, on every exit path: non-success status, no
\* response body, done frame, error frame, end of stream, and a fetch or a
\* read that rejects.
C22_ExactlyOneTerminalCallback ==
    /\ \A i \in 1..Len(calls) : IsTerminalCall(calls[i]) => i = Len(calls)
    /\ cpc = "returned" <=> (calls # <<>> /\ IsTerminalCall(calls[Len(calls)]))

\* a read has rejected after an onChunk call: onError follows the chunk
C22_Witness ==
    /\ exception # <<>> /\ exception[1].at = "reading"
    /\ cpc = "returned"
    /\ Len(calls) = 2
    /\ calls[1].cb = "onChunk"
    /\ calls[2].cb = "onError"

(***************************************************************************)
(* The unterminated last line.                                             *)
(***************************************************************************)
\* what follows the last newline of the bytes read
UnterminatedTail == Last(Split(received))

\* C23: when the stream has ended with bytes after the last newline, those
\* bytes are still in buffer and were never dispatched, whatever frame they
\* spell: the callbacks are those of the complete lines, and when none of
\* them is terminal the invocation ends with the fallback onDone.
C23_TrailingLineDiscarded ==
    (Streamed /\ cpc = "returned" /\ wire = <<>> /\ UnterminatedTail # <<>>) =>
        /\ buffer = UnterminatedTail
        /\ calls = CallsAlone(received, TRUE)
        /\ FirstTerminal(CompleteLines) = 0 =>
                calls = ChunkCalls(CompleteLines) \o <<OnDone>>

\* a content frame, then an error frame without its newline: the chunk is
\* delivered and the error is not, onDone ends the invocation
C23_Witness ==
    /\ Streamed /\ cpc = "returned" /\ wire = <<>>
    /\ IsErrorLine(UnterminatedTail)
    /\ Len(CompleteLines) = 1 /\ IsContentLine(CompleteLines[1])
    /\ Len(calls) = 2 /\ calls[2] = OnDone

(***************************************************************************)
(* In-band or synchronous failure.                                         *)
(***************************************************************************)
\* a content frame was written: some fragment yielded was not empty
ContentWritten == \E i \in 1..Len(yielded) : NonEmpty(yielded[i])

\* an error event is among the frames written
ErrorEventWritten == \E i \in 1..Len(resWrites) : WrittenEvents[i].type = "error"

\* C24: an error event is written if and only if the upstream stream
\* failed after at least one content frame had been written; when the
\* stream was opened and fails with nothing written (no fragment, or empty
\* ones only), the response is the synchronous failure with status 500 and
\* the body {"error":"Failed to process chat"}, and no frame at all.
C24_InBandIffFrameWritten ==
    /\ ErrorEventWritten <=> (upstream = "raised" /\ ContentWritten)
    /\ (upstream = "raised" /\ ~ContentWritten) =>
            /\ resWrites = <<>>
            /\ respStatus = 500
            /\ resJson = JSONStringify(KeyError, StrV(FailedToProcessChat))
            /\ respClosed

\* the stream was opened, yielded an empty fragment and then failed
C24_Witness ==
    /\ upstream = "raised"
    /\ yielded = << <<>> >>
    /\ respStatus = 500
    /\ resWrites = <<>>

(***************************************************************************)
(* The chat screen.                                                        *)
(***************************************************************************)
\* the streamChat calls of the screen that have made no terminal callback
InFlight == {k \in 1..Len(screen.streams) : screen.streams[k].status = "open"}

\* C25: at most one stream of the chat screen is in flight at any time; no
\* stream was ever started for an empty or whitespace-only text; and in a
\* step taken while isStreaming is true, whatever the user does (send
\* button, keyboard submit, suggestion, clearing the conversation), no
\* streamChat call is started and no message is appended.
C25_OneStreamInFlight ==
    /\ [](/\ Cardinality(InFlight) <= 1
          /\ screen.isStreaming => Cardinality(InFlight) = 1
          /\ \A k \in 1..Len(screen.streams) : ~IsBlank(screen.streams[k].text))
    /\ [][screen.isStreaming =>
            /\ Len(screen'.streams) = Len(screen.streams)
            /\ Len(screen'.messages) <= Len(screen.messages)]_vars

\* the conversation was cleared while its stream is in flight: the
\* suggestions are on the screen and can be pressed
C25_Witness ==
    /\ screen.isStreaming
    /\ Cardinality(InFlight) = 1
    /\ screen.messages = <<>>
    /\ screen.rendered.messages = <<>>

\* stream k makes its terminal callback in this step
Terminates(k) ==
    /\ k \in 1..Len(screen.streams)
    /\ screen.streams[k].status = "open"
    /\ screen'.streams[k].status # "open"

\* C26: when every stream terminates, a turn started by sendMessage always
\* brings the screen back to idle: isStreaming becomes false again, in the
\* state and on the rendered screen, so the input is enabled again; it is
\* set to false by the terminal callback of the turn and by nothing else,
\* once per turn; and the error callback leaves the apology text, and
\* nothing else, in the assistant placeholder of its turn.
C26_TurnReturnsToIdle ==
    /\ screen.isStreaming ~> ~screen.isStreaming
    /\ screen.rendered.isStreaming ~> ~screen.rendered.isStreaming
    /\ [][/\ (screen.isStreaming /\ ~screen'.isStreaming)
                <=> (\E k \in 1..MaxTurns : Terminates(k))
          /\ \A k \in 1..MaxTurns :
                (Terminates(k) /\ screen'.streams[k].status = "error") =>
                    /\ Len(screen'.messages) = Len(screen.messages)
                    /\ \A i \in 1..Len(screen.messages) :
                          screen'.messages[i] =
                            IF screen.messages[i].id = screen.streams[k].assistantId
                              THEN [screen.messages[i] EXCEPT !.content = ApologyText]
                              ELSE screen.messages[i]]_vars

\* a turn got a chunk and then failed: the screen is idle again and shows
\* the apology in place of the answer
C26_Witness ==
    /\ ~screen.isStreaming /\ ~screen.rendered.isStreaming
    /\ \E k \in 1..Len(screen.streams) :
          /\ screen.streams[k].status = "error"
          /\ screen.streams[k].chunks = 1
          /\ \E i \in 1..Len(screen.messages) :
                /\ screen.messages[i].id = screen.streams[k].assistantId
                /\ screen.messages[i].content = ApologyText

(***************************************************************************)
(* The portfolio and its persisted copy.                                   *)
(***************************************************************************)
\* the key holds the list: its text, or nothing at all for the empty list
Persists(stored, text, empty) ==
    \/ stored = Item(text)
    \/ empty /\ ~stored.present

HoldingsPersisted ==
    Persists(portfolio.storedHoldings, StringifyHoldings(portfolio.holdings),
             portfolio.holdings = <<>>)

WatchlistPersisted ==
    Persists(portfolio.storedWatchlist, StringifyWatchlist(portfolio.watchlist),
             portfolio.watchlist = <<>>)

\* C27: once the initial load and the operations issued so far have
\* completed, in whatever order they interleaved, the holdings and the
\* watchlist in storage are the holdings and the watchlist in memory.
C27_PersistedEqualsMemory ==
    portfolio.pc = "loaded" => HoldingsPersisted /\ WatchlistPersisted

\* no two elements of the list have the same key
NoRepeat(l, Key(_)) ==
    \A i, j \in 1..Len(l) : Key(l[i]) = Key(l[j]) => i = j

SymbolOf(h) == h.symbol
Itself(s) == s

\* this step is a call of the operation op of the context
Calls(op) ==
    /\ portfolio'.ops = portfolio.ops + 1
    /\ portfolio'.last[1].op = op

\* C28: the holdings never have two entries of one symbol and the watchlist
\* never has a symbol twice; addHolding puts its item last and drops the
\* entry the symbol had, removeHolding(s) drops the entry of s and keeps the
\* others in their order; addToWatchlist of a symbol that is there leaves
\* the list as it is and otherwise adds it last, removeFromWatchlist drops
\* it; and from an empty portfolio isInWatchlist(s) is true exactly for the
\* symbols added and not removed since, unless the initial load replaced a
\* list that an operation had set (C27).
C28_OneEntryPerSymbol ==
    /\ [](/\ NoRepeat(portfolio.holdings, SymbolOf)
          /\ NoRepeat(portfolio.watchlist, Itself)
          /\ (portfolio.emptyStart /\ ~portfolio.overwrote) =>
                \A s \in PortfolioSymbols : IsInWatchlist(s) <=> s \in portfolio.watched)
    /\ [][LET old == portfolio
              new == portfolio'
              s == new.last[1].symbol
              others(l) == SelectSeq(l, LAMBDA x : x # s)
          IN  /\ Calls("addHolding") =>
                    /\ new.holdings =
                          Append(SelectSeq(old.holdings, LAMBDA h : h.symbol # s),
                                 [symbol |-> s, quantity |-> new.last[1].quantity])
              /\ Calls("removeHolding") =>
                    /\ \A i \in 1..Len(new.holdings) : new.holdings[i].symbol # s
                    /\ new.holdings = SelectSeq(old.holdings, LAMBDA h : h.symbol # s)
              /\ Calls("addToWatchlist") =>
                    /\ IncludesSymbol(old.watchlist, s) => new.watchlist = old.watchlist
                    /\ ~IncludesSymbol(old.watchlist, s) =>
                          new.watchlist = Append(old.watchlist, s)
              /\ Calls("removeFromWatchlist") =>
                    /\ ~IncludesSymbol(new.watchlist, s)
                    /\ new.watchlist = others(old.watchlist)]_vars

\* AAPL was held, MSFT was added and then AAPL again with another quantity:
\* MSFT is first and the new AAPL entry last; and a symbol was added to the
\* watchlist a second time
C28_Witness ==
    /\ portfolio.holdings = <<[symbol |-> SymMSFT, quantity |-> 1],
                              [symbol |-> SymAAPL, quantity |-> 2]>>
    /\ portfolio.last = Called("addHolding", SymAAPL, 2)
    /\ portfolio.ops = 3

\* the watchlist after a symbol in it was added again
WatchlistAddedTwice ==
    /\ portfolio.emptyStart /\ ~portfolio.overwrote
    /\ portfolio.watchlist = <<SymAAPL>>
    /\ portfolio.last = Called("addToWatchlist", SymAAPL, 0)
    /\ portfolio.ops = 2

(***************************************************************************)
(* Settings: Clear Data.                                                   *)
(***************************************************************************)
\* the lists the two keys hold
StoredHoldings ==
    IF ItemTruthy(portfolio.storedHoldings)
      THEN ParseHoldings(portfolio.storedHoldings.text) ELSE <<>>

StoredWatchlist ==
    IF ItemTruthy(portfolio.storedWatchlist)
      THEN ParseWatchlist(portfolio.storedWatchlist.text) ELSE <<>>

\* the symbols given to addHolding (list = "holdings") or addToWatchlist
\* (list = "watchlist") since Clear Data
AddedSinceClear(list) == {s \in PortfolioSymbols : <<list, s>> \in portfolio.sinceClear}

\* C29: after Clear Data the holdings and the watchlist, in storage and in
\* memory, hold nothing but what was added since: they are empty when it
\* completes, and a later add brings no cleared entry back.
C29_ClearDataResets ==
    portfolio.cleared =>
        /\ \A i \in 1..Len(StoredHoldings) :
              StoredHoldings[i].symbol \in AddedSinceClear("holdings")
        /\ \A i \in 1..Len(portfolio.holdings) :
              portfolio.holdings[i].symbol \in AddedSinceClear("holdings")
        /\ \A i \in 1..Len(StoredWatchlist) :
              StoredWatchlist[i] \in AddedSinceClear("watchlist")
        /\ \A i \in 1..Len(portfolio.watchlist) :
              portfolio.watchlist[i] \in AddedSinceClear("watchlist")

\* the cleared AAPL entry is in storage again after MSFT was added
ClearedEntryBack ==
    /\ portfolio.cleared
    /\ portfolio.last = Called("addHolding", SymMSFT, 1)
    /\ portfolio.sinceClear = {<<"holdings", SymMSFT>>}
    /\ StoredHoldings = <<[symbol |-> SymAAPL, quantity |-> 1],
                          [symbol |-> SymMSFT, quantity |-> 1]>>

\* MSFT was added while the load was under way and is gone from memory,
\* and the AAPL entry that was stored is gone from storage
AddLostByLoad ==
    /\ portfolio.pc = "loaded"
    /\ portfolio.last = Called("addHolding", SymMSFT, 1) /\ portfolio.ops = 1
    /\ portfolio.holdings = <<[symbol |-> SymAAPL, quantity |-> 1]>>
    /\ StoredHoldings = <<[symbol |-> SymMSFT, quantity |-> 1]>>

(***************************************************************************)
(* Local authentication.                                                   *)
(***************************************************************************)
\* the last call of login, signup or logout, when there is one
LastCall == auth.history[Len(auth.history)]

\* the table the last call found has a record under the lower-cased email
WasRegistered(email) == UserRecord(auth.before.users, ToLowerCase(email)) # <<>>

\* login succeeds exactly when the email is registered, letter case
\* ignored, and the password hashes to the stored hash
LoginSucceedsIffRegistered ==
    (auth.history # <<>> /\ LastCall.op = "login" /\ LastCall.rejects = "none") =>
        (LastCall.success <=>
            /\ WasRegistered(LastCall.email)
            /\ UserRecord(auth.before.users, ToLowerCase(LastCall.email))[1].passwordHash
                  = HashPassword(LastCall.password))

\* signup for a registered email fails with 'Email already registered'
SignupOfRegisteredFails ==
    (/\ auth.history # <<>> /\ LastCall.op = "signup" /\ LastCall.rejects = "none"
     /\ WasRegistered(LastCall.email)) =>
        ~LastCall.success /\ LastCall.error = EmailAlreadyRegistered

\* a failed call has an error message and has changed nothing
FailureChangesNothing ==
    (auth.history # <<>> /\ ~LastCall.success) =>
        /\ LastCall.error # <<>>
        /\ auth.user = auth.before.user
        /\ auth.authUser = auth.before.authUser
        /\ auth.users = auth.before.users

\* signup, logout, then login with the email in any letter case and the
\* same password: the login succeeds
LoginAfterSignupAndLogout ==
    \A i \in 1..(Len(auth.history) - 2) :
        LET signup == auth.history[i]
            logout == auth.history[i + 1]
            login == auth.history[i + 2]
        IN  (/\ signup.op = "signup" /\ signup.success
             /\ logout.op = "logout"
             /\ login.op = "login" /\ login.rejects = "none"
             /\ ToLowerCase(login.email) = ToLowerCase(signup.email)
             /\ login.password = signup.password) => login.success

\* C30: with the storage and the digest answering, login succeeds if and
\* only if the lower-cased email is registered and the salted hash of the
\* password is the stored one, signup of a registered email fails with
\* 'Email already registered', and login after signup and logout succeeds
\* in any letter case of the email; and every failed login or signup has
\* success false and an error message and leaves the user, auth_user and
\* the registered users as they were.
C30_LocalAuthentication ==
    /\ LoginSucceedsIffRegistered
    /\ SignupOfRegisteredFails
    /\ FailureChangesNothing
    /\ LoginAfterSignupAndLogout

\* signup returned 'Signup failed' and the email is registered all the same
FailedSignupRegistered ==
    /\ auth.history # <<>> /\ LastCall.op = "signup"
    /\ ~LastCall.success /\ LastCall.error = SignupFailed
    /\ ~WasRegistered(LastCall.email)
    /\ UserRecord(auth.users, ToLowerCase(LastCall.email)) # <<>>
    /\ auth.user = <<>> /\ auth.authUser = <<>>

\* a login in the other letter case succeeded after signup and logout
LoginInOtherCase ==
    /\ Len(auth.history) = 3
    /\ auth.history[1].op = "signup" /\ auth.history[1].success
    /\ auth.history[2].op = "logout"
    /\ auth.history[3].op = "login" /\ auth.history[3].success
    /\ auth.history[3].email # auth.history[1].email

====
